---- MODULE Spec2Model ----
(***************************************************************************)
(* A model of webconnex/xmlutil: the type registry and namespace table     *)
(* (xmlutil.go), the streaming decoder (decoder.go) and the streaming      *)
(* encoder (encoder.go).                                                   *)
(*                                                                         *)
(* Go values are records tagged with their reflect.Kind (k) and their      *)
(* reflect.Type (t).  Text ([]byte / string contents) is a sequence of     *)
(* symbols, so that formatting, parsing, escaping and concatenation are    *)
(* computed and never the identity.  The encoder's output is the sequence  *)
(* of fragments it writes (one per WriteByte / WriteString / Escape call); *)
(* Tokenize turns such a sequence into the token stream encoding/xml's     *)
(* Decoder.Token delivers.                                                 *)
(***************************************************************************)
EXTENDS Integers, Sequences, FiniteSets, TLC

VARIABLES typeMap, typeLock, nsPrefixMap, nsUriMap, nsLock, last, gor

vars == <<typeMap, typeLock, nsPrefixMap, nsUriMap, nsLock, last, gor>>

\* the two locks of the XmlUtil and the goroutines that are inside its calls
conc == <<typeLock, nsLock, gor>>

\* With(v, B): B of the value v; a call's result is named once and used
\* many times
With(v, B(_)) == B(v)

(***************************************************************************)
(* Bounds of the model.                                                    *)
(***************************************************************************)
\* children of the root element in a generated document
MaxKids == 2
\* top-level sibling elements in a generated stream
MaxTop == 2
\* items of a repeated field in an encoded value
MaxItems == 2

(***************************************************************************)
(* The user types the registry, the encoder and the decoder are run on.    *)
(*                                                                         *)
(*   type Rec struct {                                                     *)
(*       Id  int    `xml:"N,attr,omitempty"`                               *)
(*       hid int                                                           *)
(*       N   int    `xml:"N,omitempty"`                                    *)
(*       Foo string `xml:"ex:Foo"`                                         *)
(*   }                                                                     *)
(*   type Box struct {                                                     *)
(*       Name  string      `xml:"Name"`                                    *)
(*       Inner Rec         `xml:"Inner"`                                   *)
(*       Items []Rec       `xml:"Item"`                                    *)
(*       Any   interface{} `xml:"Any"`                                     *)
(*   }                                                                     *)
(*   type Stamp struct {                                                   *)
(*       At   time.Time `xml:"At,attr"`                                    *)
(*       When time.Time `xml:"When"`                                       *)
(*   }                                                                     *)
(*   type Bag struct {                                                     *)
(*       Ref    *Rec          `xml:"Ref"`                                  *)
(*       Things []interface{} `xml:"Thing,omitempty"`                      *)
(*       Tail   string        `xml:"Tail"`                                 *)
(*   }                                                                     *)
(*   type BadA struct { C chan int `xml:"C,attr"` }                        *)
(*   type BadE struct { C chan int `xml:"C"` }                             *)
(*                                                                         *)
(* A type is named by its Go spelling; Kind, Elem, TypeName and            *)
(* StructFields are what reflect reports for it.                           *)
(***************************************************************************)
StructTypes == {"Rec", "Box", "Stamp", "Bag", "BadA", "BadE", "Time"}

Kind(t) ==
  CASE t = "int" -> "Int"
    [] t = "string" -> "String"
    [] t = "chan int" -> "Chan"
    [] t = "interface{}" -> "Interface"
    [] t \in StructTypes -> "Struct"
    [] t \in {"*Rec", "*Box", "**Rec", "*Stamp", "*Bag", "*BadA", "*[]Rec", "*[]interface{}"}
        -> "Ptr"
    [] t \in {"[]Rec", "[]Box", "[]int", "[]interface{}"} -> "Slice"

Elem(t) ==
  CASE t = "*Rec" -> "Rec"
    [] t = "**Rec" -> "*Rec"
    [] t = "*Box" -> "Box"
    [] t = "*Stamp" -> "Stamp"
    [] t = "*Bag" -> "Bag"
    [] t = "*BadA" -> "BadA"
    [] t = "*[]Rec" -> "[]Rec"
    [] t = "*[]interface{}" -> "[]interface{}"
    [] t = "[]Rec" -> "Rec"
    [] t = "[]Box" -> "Box"
    [] t = "[]int" -> "int"
    [] t = "[]interface{}" -> "interface{}"

\* reflect.Type.Name: empty for an unnamed type
TypeName(t) ==
  IF t \in StructTypes \cup {"int", "string"} THEN t ELSE ""

\* one declared field: its identifier, PkgPath == "" (exported), embedding,
\* the xml tag as lexemes (split at "," into tokens, ":" a lexeme of its own)
\* and its declared type
FieldDecl(id, exported, tag, typ) ==
  [Name |-> id, Exported |-> exported, Anonymous |-> FALSE, Tag |-> tag, Type |-> typ]

StructFields(t) ==
  CASE t = "Rec" ->
         << FieldDecl("Id", TRUE, << <<"N">>, <<"attr">>, <<"omitempty">> >>, "int"),
            FieldDecl("hid", FALSE, << <<>> >>, "int"),
            FieldDecl("N", TRUE, << <<"N">>, <<"omitempty">> >>, "int"),
            FieldDecl("Foo", TRUE, << <<"ex", ":", "Foo">> >>, "string") >>
    [] t = "Box" ->
         << FieldDecl("Name", TRUE, << <<"Name">> >>, "string"),
            FieldDecl("Inner", TRUE, << <<"Inner">> >>, "Rec"),
            FieldDecl("Items", TRUE, << <<"Item">> >>, "[]Rec"),
            FieldDecl("Any", TRUE, << <<"Any">> >>, "interface{}") >>
    [] t = "Stamp" ->
         << FieldDecl("At", TRUE, << <<"At">>, <<"attr">> >>, "Time"),
            FieldDecl("When", TRUE, << <<"When">> >>, "Time") >>
    [] t = "Bag" ->
         << FieldDecl("Ref", TRUE, << <<"Ref">> >>, "*Rec"),
            FieldDecl("Things", TRUE, << <<"Thing">>, <<"omitempty">> >>, "[]interface{}"),
            FieldDecl("Tail", TRUE, << <<"Tail">> >>, "string") >>
    [] t = "BadA" ->
         << FieldDecl("C", TRUE, << <<"C">>, <<"attr">> >>, "chan int") >>
    [] t = "BadE" ->
         << FieldDecl("C", TRUE, << <<"C">> >>, "chan int") >>
    [] t = "Time" ->
         << FieldDecl("wall", FALSE, << <<>> >>, "int"),
            FieldDecl("ext", FALSE, << <<>> >>, "int"),
            FieldDecl("loc", FALSE, << <<>> >>, "int") >>

\* the string a sequence of lexemes spells (the tags above need at most one)
Join(lexemes) == IF lexemes = <<>> THEN "" ELSE lexemes[1]

\* strings.Index(tag, ":"): the first position of ":", 0 when there is none
IndexColon(tag) ==
  IF \E i \in 1..Len(tag) : tag[i] = ":"
  THEN CHOOSE i \in 1..Len(tag) : tag[i] = ":" /\ \A j \in 1..(i - 1) : tag[j] # ":"
  ELSE 0

XmlName(space, local) == [Space |-> space, Local |-> local]

NoName == XmlName("", "")

(***************************************************************************)
(* The namespace table (xmlutil.go).                                       *)
(***************************************************************************)
MapGet(m, key) == IF key \in DOMAIN m THEN m[key] ELSE ""

MapPut(m, key, v) == [x \in DOMAIN m \cup {key} |-> IF x = key THEN v ELSE m[x]]

\* a table in which no URI has a prefix
noPrefix(prefixMap, uri) == ""

lookupPrefix(prefixMap, uri) == MapGet(prefixMap, uri)

lookupNamespaceUri(uriMap, prefix) == MapGet(uriMap, prefix)

(***************************************************************************)
(* The type registry (xmlutil.go).  A descriptor is                        *)
(* [name, attrs, fields]; the flags of a field are the set of bits set.    *)
(***************************************************************************)
fAttr == "fAttr"
fInterface == "fInterface"
fOmitEmpty == "fOmitEmpty"

\* the flags the tokens after the first set (unknown ones are ignored)
TagFlags(tokens) ==
  {fAttr : i \in {j \in 2..Len(tokens) : tokens[j] = <<"attr">>}}
    \cup {fOmitEmpty : i \in {j \in 2..Len(tokens) : tokens[j] = <<"omitempty">>}}

\* the descriptor of declared field i of struct type typ
fieldInfoOf(uriMap, typ, i) ==
  LET f == StructFields(typ)[i]
      tag == f.Tag[1]
      c == IndexColon(tag)
      space == IF c > 0 THEN lookupNamespaceUri(uriMap, Join(SubSeq(tag, 1, c - 1))) ELSE ""
      local0 == IF c > 0 THEN Join(SubSeq(tag, c + 1, Len(tag))) ELSE Join(tag)
      local == IF local0 = "" THEN f.Name ELSE local0
      ft == IF Kind(f.Type) = "Slice" THEN Elem(f.Type) ELSE f.Type
  IN [index |-> i,
      name |-> XmlName(space, local),
      flags |-> TagFlags(f.Tag) \cup (IF Kind(ft) = "Interface" THEN {fInterface} ELSE {})]

\* whether getFields keeps declared field i
fieldKept(typ, i) == StructFields(typ)[i].Exported

RECURSIVE getFieldsFrom(_, _, _)
getFieldsFrom(uriMap, typ, i) ==
  IF i > Len(StructFields(typ)) THEN <<>>
  ELSE (IF fieldKept(typ, i) THEN <<fieldInfoOf(uriMap, typ, i)>> ELSE <<>>)
         \o getFieldsFrom(uriMap, typ, i + 1)

getFields(uriMap, typ) == getFieldsFrom(uriMap, typ, 1)

\* the type registerType and getTypeInfo end on: pointers are followed
\* (reflect's Elem of an interface type panics: "" stands for that)
RECURSIVE Deref(_)
Deref(typ) ==
  IF Kind(typ) = "Ptr" THEN Deref(Elem(typ))
  ELSE IF Kind(typ) = "Interface" THEN ""
  ELSE typ

\* the descriptor registerType builds for the (dereferenced) type
newTypeInfo(uriMap, typ, name, attrs) ==
  [name |-> IF name.Local = "" THEN XmlName(name.Space, TypeName(typ)) ELSE name,
   attrs |-> attrs,
   fields |-> IF Kind(typ) = "Struct" THEN getFields(uriMap, typ) ELSE <<>>]

\* registerType: the registry after the call; the write is unconditional
registerType(tm, uriMap, typ, name, attrs) ==
  MapPut(tm, Deref(typ), newTypeInfo(uriMap, Deref(typ), name, attrs))

\* getTypeInfo: the registry after the call (a descriptor is derived and
\* stored when the dereferenced type has none)
getTypeInfo(tm, uriMap, typ) ==
  IF Deref(typ) \in DOMAIN tm THEN tm ELSE registerType(tm, uriMap, typ, NoName, <<>>)

\* the descriptor getTypeInfo returns
typeInfoOf(tm, uriMap, typ) == getTypeInfo(tm, uriMap, typ)[Deref(typ)]

(***************************************************************************)
(* Go values.  An option (a pointer's target, an interface's dynamic       *)
(* value, an optional *xml.Name) is a sequence of length 0 or 1.           *)
(***************************************************************************)
IntV(n) == [k |-> "Int", t |-> "int", i |-> n]

StrV(s) == [k |-> "String", t |-> "string", s |-> s]

ChanV == [k |-> "Chan", t |-> "chan int"]

\* a time.Time: a struct whose fields are all unexported; tm is the instant
TimeV(tm) == [k |-> "Struct", t |-> "Time", tm |-> tm]

StructV(typ, fs) == [k |-> "Struct", t |-> typ, f |-> fs]

\* a slice: a holds the items, back the slots of the backing array beyond
\* the length, so that the capacity is Len(a) + Len(back)
SliceV(typ, items, back) == [k |-> "Slice", t |-> typ, a |-> items, back |-> back]

PtrV(typ, p) == [k |-> "Ptr", t |-> typ, p |-> p]

IfaceV(d) == [k |-> "Interface", t |-> "interface{}", d |-> d]

\* the zero reflect.Value (reflect.ValueOf(nil), Elem of a nil interface)
InvalidV == [k |-> "Invalid"]

RECURSIVE ZeroValue(_)
ZeroValue(typ) ==
  CASE Kind(typ) = "Int" -> IntV(0)
    [] Kind(typ) = "String" -> StrV(<<>>)
    [] Kind(typ) = "Chan" -> ChanV
    [] Kind(typ) = "Interface" -> IfaceV(<<>>)
    [] Kind(typ) = "Ptr" -> PtrV(typ, <<>>)
    [] Kind(typ) = "Slice" -> SliceV(typ, <<>>, <<>>)
    [] typ = "Time" -> TimeV(0)
    [] OTHER -> StructV(typ, [i \in 1..Len(StructFields(typ)) |-> ZeroValue(StructFields(typ)[i].Type)])

(***************************************************************************)
(* Text: strconv, time and xml.Escape on sequences of symbols.             *)
(***************************************************************************)
DigitSyms == <<"0", "1", "2", "3", "4", "5", "6", "7", "8", "9">>

IsDigit(c) == \E d \in 1..10 : DigitSyms[d] = c

DigitVal(c) == (CHOOSE d \in 1..10 : DigitSyms[d] = c) - 1

RECURSIVE FormatNat(_)
FormatNat(n) ==
  IF n < 10 THEN <<DigitSyms[n + 1]>> ELSE FormatNat(n \div 10) \o <<DigitSyms[(n % 10) + 1]>>

\* strconv.FormatInt(n, 10)
FormatInt(n) == IF n < 0 THEN <<"-">> \o FormatNat(0 - n) ELSE FormatNat(n)

RECURSIVE ParseNat(_, _)
ParseNat(s, acc) == IF s = <<>> THEN acc ELSE ParseNat(Tail(s), 10 * acc + DigitVal(Head(s)))

\* strconv.ParseInt(s, 10, 64): an optional sign, then one digit or more
ParseInt(s) ==
  LET signed == s # <<>> /\ Head(s) \in {"+", "-"}
      digits == IF signed THEN Tail(s) ELSE s
      ok == digits # <<>> /\ \A i \in 1..Len(digits) : IsDigit(digits[i])
  IN IF ~ok THEN [ok |-> FALSE, v |-> 0]
     ELSE [ok |-> TRUE,
           v |-> IF signed /\ Head(s) = "-" THEN 0 - ParseNat(digits, 0) ELSE ParseNat(digits, 0)]

\* the instants of the model and their RFC 3339 spelling, one symbol each:
\* the zero time, a whole second and an instant with a fraction of a second
TimeSyms == <<"0001-01-01T00:00:00Z", "2020-01-02T03:04:05Z", "2020-01-02T03:04:05.5Z">>

Instants == 0..(Len(TimeSyms) - 1)

\* Time.Format(time.RFC3339Nano)
FormatTime(tm) == <<TimeSyms[tm + 1]>>

\* time.Parse(time.RFC3339, s): parsing accepts a fraction of a second
ParseTime(s) ==
  IF Len(s) = 1 /\ \E i \in 1..Len(TimeSyms) : TimeSyms[i] = s[1]
  THEN [ok |-> TRUE, v |-> (CHOOSE i \in 1..Len(TimeSyms) : TimeSyms[i] = s[1]) - 1]
  ELSE [ok |-> FALSE, v |-> 0]

\* xml.Escape, symbol by symbol
EscapeSym(c) ==
  CASE c = "<" -> "&lt;"
    [] c = ">" -> "&gt;"
    [] c = "&" -> "&amp;"
    [] c = "'" -> "&#39;"
    [] c = "\"" -> "&#34;"
    [] OTHER -> c

Escape(s) == [i \in 1..Len(s) |-> EscapeSym(s[i])]

\* the tokenizer's entity decoding, symbol by symbol
UnescapeSym(c) ==
  CASE c = "&lt;" -> "<"
    [] c = "&gt;" -> ">"
    [] c = "&amp;" -> "&"
    [] c = "&#39;" -> "'"
    [] c = "&#34;" -> "\""
    [] OTHER -> c

Unescape(s) == [i \in 1..Len(s) |-> UnescapeSym(s[i])]

(***************************************************************************)
(* The encoder (encoder.go).  x is the namespace table the call reads,     *)
(* [prefixMap, uriMap]; tm is the registry, which getTypeInfo extends;     *)
(* out is what has been written to the bufio.Writer.  An error is a        *)
(* sequence: empty for nil, <<"UnsupportedTypeError", type>> for a         *)
(* returned error, <<"panic", message>> for a panic unwinding the call.    *)
(***************************************************************************)
Nil == <<>>

Frag(w, n) == [w |-> w, n |-> n]

Lt == Frag("<", <<>>)
Gt == Frag(">", <<>>)
Slash == Frag("/", <<>>)
Sp == Frag(" ", <<>>)
Eq == Frag("=", <<>>)
Quote == Frag("\"", <<>>)
\* WriteString(tag): tag is prefix + ":" + local, or local alone
TagFrag(prefix, local) ==
  Frag("name", IF prefix # "" THEN <<prefix, ":", local>> ELSE <<local>>)
TextFrag(s) == Frag("text", s)

UnsupportedTypeError(typ) == <<"UnsupportedTypeError", typ>>

Panic(msg) == <<"panic", msg>>

IsPanic(err) == err # Nil /\ err[1] = "panic"

\* marshalText: the kinds of the model are Int and String, the timestamp
\* type, and the kinds that have no leaf encoding
marshalText(val, out) ==
  CASE val.t = "Time" -> [out |-> Append(out, TextFrag(FormatTime(val.tm))), err |-> Nil]
    [] val.k = "Int" -> [out |-> Append(out, TextFrag(FormatInt(val.i))), err |-> Nil]
    [] val.k = "String" -> [out |-> Append(out, TextFrag(Escape(val.s))), err |-> Nil]
    [] OTHER -> [out |-> out, err |-> UnsupportedTypeError(val.t)]

isEmptyValue(v) ==
  CASE v.k = "Slice" -> Len(v.a) = 0
    [] v.k = "String" -> Len(v.s) = 0
    [] v.k = "Int" -> v.i = 0
    [] v.k = "Interface" -> v.d = <<>>
    [] v.k = "Ptr" -> v.p = <<>>
    [] OTHER -> FALSE

\* marshalAttributes, first loop: the fields flagged fAttr, from field i on
RECURSIVE marshalAttrFields(_, _, _, _, _, _)
marshalAttrFields(x, val, ti, i, check, out) ==
  IF i > Len(ti.fields) THEN [out |-> out, err |-> Nil, check |-> check]
  ELSE IF fAttr \notin ti.fields[i].flags \/ ti.fields[i].name \in check
  THEN marshalAttrFields(x, val, ti, i + 1, check, out)
  ELSE With(marshalText(val.f[ti.fields[i].index],
                        out \o <<Sp,
                                 TagFrag(lookupPrefix(x.prefixMap, ti.fields[i].name.Space),
                                         ti.fields[i].name.Local),
                                 Eq, Quote>>),
            LAMBDA r :
              IF r.err # Nil
              THEN [out |-> r.out, err |-> r.err, check |-> check \cup {ti.fields[i].name}]
              ELSE marshalAttrFields(x, val, ti, i + 1, check \cup {ti.fields[i].name},
                                     Append(r.out, Quote)))

\* marshalAttributes, second loop: the descriptor's fixed attributes
RECURSIVE marshalFixedAttrs(_, _, _, _, _)
marshalFixedAttrs(x, ti, i, check, out) ==
  IF i > Len(ti.attrs) THEN out
  ELSE IF ti.attrs[i].Name \in check THEN marshalFixedAttrs(x, ti, i + 1, check, out)
  ELSE marshalFixedAttrs(x, ti, i + 1, check \cup {ti.attrs[i].Name},
         out \o <<Sp,
                  TagFrag(lookupPrefix(x.prefixMap, ti.attrs[i].Name.Space),
                          ti.attrs[i].Name.Local),
                  Eq, Quote, TextFrag(Escape(ti.attrs[i].Value)), Quote>>)

marshalAttributes(x, val, ti, out) ==
  With(marshalAttrFields(x, val, ti, 1, {}, out), LAMBDA r :
    IF r.err # Nil THEN [out |-> r.out, err |-> r.err]
    ELSE [out |-> marshalFixedAttrs(x, ti, 1, r.check, r.out), err |-> Nil])

EncResult(tm, out, err) == [tm |-> tm, out |-> out, err |-> err]

\* marshalFields passes over the field: it is flagged fAttr, or it is
\* flagged fOmitEmpty and holds an empty value
fieldSkipped(val, fi) ==
  \/ fAttr \in fi.flags
  \/ fOmitEmpty \in fi.flags /\ isEmptyValue(val.f[fi.index])

RECURSIVE marshalValue(_, _, _, _, _)
RECURSIVE marshalElement(_, _, _, _, _)
RECURSIVE marshalContent(_, _, _, _)
RECURSIVE marshalItems(_, _, _, _, _, _)
RECURSIVE marshalFields(_, _, _, _, _, _)
RECURSIVE marshalField(_, _, _, _, _, _, _)

\* marshalValue; name is the optional *xml.Name
marshalValue(x, val, name, tm, out) ==
  CASE val.k = "Invalid" -> EncResult(tm, out, Nil)
    [] val.k = "Ptr" /\ val.p = <<>> -> EncResult(tm, out, Nil)
    [] val.k = "Ptr" /\ val.p # <<>> -> marshalValue(x, val.p[1], name, tm, out)
    [] val.k = "Interface" /\ val.d = <<>> -> EncResult(tm, out, Nil)
    [] val.k = "Interface" /\ val.d # <<>> -> marshalValue(x, val.d[1], name, tm, out)
    [] val.k = "Slice" -> marshalItems(x, val, 1, name, tm, out)
    [] OTHER ->
         With(getTypeInfo(tm, x.uriMap, val.t), LAMBDA tm1 :
           marshalElement(x, val, IF name = <<>> THEN tm1[val.t].name ELSE name[1], tm1, out))

\* marshalValue from the tag on: nm is the name in use and tm the registry
\* that holds the descriptor.  An error of marshalAttributes ends the call
\* with nil
marshalElement(x, val, nm, tm, out) ==
  With(IF nm.Space # "" THEN lookupPrefix(x.prefixMap, nm.Space) ELSE "", LAMBDA prefix :
    With(marshalAttributes(x, val, tm[val.t], out \o <<Lt, TagFrag(prefix, nm.Local)>>),
         LAMBDA a :
           IF a.err # Nil THEN EncResult(tm, a.out, Nil)
           ELSE With(marshalContent(x, val, tm, Append(a.out, Gt)), LAMBDA c :
                  IF c.err # Nil THEN c
                  ELSE EncResult(c.tm,
                                 c.out \o <<Lt, Slash, TagFrag(prefix, nm.Local), Gt>>,
                                 Nil))))

\* marshalValue, between the tags: marshalFields for a struct, marshalText
\* for any other kind
marshalContent(x, val, tm, out) ==
  IF val.k = "Struct" THEN marshalFields(x, val, tm[val.t], 1, tm, out)
  ELSE With(marshalText(val, out), LAMBDA t : EncResult(tm, t.out, t.err))

\* marshalValue's loop over the items of a slice, from item i on
marshalItems(x, val, i, name, tm, out) ==
  IF i > Len(val.a) THEN EncResult(tm, out, Nil)
  ELSE With(marshalValue(x, val.a[i], name, tm, out), LAMBDA r :
         IF r.err # Nil THEN r ELSE marshalItems(x, val, i + 1, name, r.tm, r.out))

\* marshalFields, from field i on.  fval.Elem() panics on a slice and
\* yields the zero Value, whose Type() panics, on a nil interface
marshalFields(x, val, ti, i, tm, out) ==
  CASE i > Len(ti.fields) -> EncResult(tm, out, Nil)
    [] i <= Len(ti.fields) /\ fieldSkipped(val, ti.fields[i]) ->
         marshalFields(x, val, ti, i + 1, tm, out)
    [] OTHER ->
         CASE fInterface \notin ti.fields[i].flags ->
                marshalField(x, val, ti, i, ti.fields[i].name, tm, out)
           [] fInterface \in ti.fields[i].flags /\ val.f[ti.fields[i].index].k # "Interface" ->
                EncResult(tm, out, Panic("reflect: call of reflect.Value.Elem on slice Value"))
           [] fInterface \in ti.fields[i].flags /\ val.f[ti.fields[i].index].k = "Interface"
                /\ val.f[ti.fields[i].index].d = <<>> ->
                EncResult(tm, out, Panic("reflect: call of reflect.Value.Type on zero Value"))
           [] OTHER ->
                With(getTypeInfo(tm, x.uriMap, val.f[ti.fields[i].index].d[1].t), LAMBDA tm1 :
                  marshalField(x, val, ti, i, tm1[Deref(val.f[ti.fields[i].index].d[1].t)].name,
                               tm1, out))

\* marshalFields, the marshalValue call for field i under the name chosen
marshalField(x, val, ti, i, name, tm, out) ==
  With(marshalValue(x, val.f[ti.fields[i].index], <<name>>, tm, out), LAMBDA r :
    IF r.err # Nil THEN r ELSE marshalFields(x, val, ti, i + 1, r.tm, r.out))

\* Encoder.Encode: the registry after the call, what reached the sink (the
\* buffer is flushed when marshalValue returns, not when it panics) and the
\* error returned
Encode(x, tm, v) ==
  With(marshalValue(x, v, <<>>, tm, <<>>), LAMBDA r :
    [tm |-> r.tm, sink |-> IF IsPanic(r.err) THEN <<>> ELSE r.out, err |-> r.err])

(***************************************************************************)
(* encoding/xml's tokenizer, on the fragments the encoder writes.  The     *)
(* documents carry no xmlns declaration, so a name's prefix is left in     *)
(* Name.Space.  A stream is [toks, tail]: the tokens Token() delivers and  *)
(* the error it returns after them, "EOF" or "SyntaxError".                *)
(***************************************************************************)
StartElement(name, attr) == [k |-> "StartElement", Name |-> name, Attr |-> attr]

CharData(data) == [k |-> "CharData", Data |-> data]

EndElement(name) == [k |-> "EndElement", Name |-> name]

XmlAttr(name, value) == [Name |-> name, Value |-> value]

Stream(toks, tail) == [toks |-> toks, tail |-> tail]

\* the xml.Name a written tag spells: the text before the colon is the prefix
NameOfTag(n) ==
  LET c == IndexColon(n)
  IN IF c > 0 THEN XmlName(Join(SubSeq(n, 1, c - 1)), Join(SubSeq(n, c + 1, Len(n))))
     ELSE XmlName("", Join(n))

FragIs(frags, i, w) == i <= Len(frags) /\ frags[i].w = w

\* the attributes of an opening tag, read from fragment i on:
\* [ok, attr, next], next being the fragment after the closing ">"
RECURSIVE TokAttrs(_, _, _)
TokAttrs(frags, i, acc) ==
  IF FragIs(frags, i, ">") THEN [ok |-> TRUE, attr |-> acc, next |-> i + 1]
  ELSE IF FragIs(frags, i, " ") /\ FragIs(frags, i + 1, "name") /\ FragIs(frags, i + 2, "=")
          /\ FragIs(frags, i + 3, "\"") /\ FragIs(frags, i + 4, "text")
          /\ FragIs(frags, i + 5, "\"") /\ NameOfTag(frags[i + 1].n).Local # ""
  THEN TokAttrs(frags, i + 6,
                Append(acc, XmlAttr(NameOfTag(frags[i + 1].n), Unescape(frags[i + 4].n))))
  ELSE [ok |-> FALSE, attr |-> acc, next |-> i]

\* fragment i is character data
IsText(frags, i) == FragIs(frags, i, "text")

\* fragments i.. spell a closing tag
IsEndTag(frags, i) ==
  /\ FragIs(frags, i, "<") /\ FragIs(frags, i + 1, "/") /\ FragIs(frags, i + 2, "name")
  /\ FragIs(frags, i + 3, ">")

\* fragments i.. spell the start of an opening tag
IsStartTag(frags, i) ==
  /\ FragIs(frags, i, "<") /\ FragIs(frags, i + 1, "name")
  /\ NameOfTag(frags[i + 1].n).Local # ""

\* a piece of markup: whether it is well formed, the fragment after it, the
\* token it yields (none for empty character data), what it adds to the
\* nesting depth and the name its tag spells
Piece(ok, next, tok, d, n) == [ok |-> ok, next |-> next, tok |-> tok, d |-> d, n |-> n]

NoPiece(i) == Piece(FALSE, i, <<>>, 0, <<>>)

\* a piece can begin at fragment i: at a "<", and at character data that
\* is not an attribute's quoted value
Begins(frags, i) ==
  \/ frags[i].w = "<"
  \/ frags[i].w = "text" /\ (i = 1 \/ frags[i - 1].w \in {">", "text"})

\* the piece that begins at fragment i
PieceAt(frags, i) ==
  CASE IsText(frags, i) ->
         Piece(TRUE, i + 1,
               IF frags[i].n = <<>> THEN <<>> ELSE <<CharData(Unescape(frags[i].n))>>, 0, <<>>)
    [] IsEndTag(frags, i) ->
         Piece(TRUE, i + 4, <<EndElement(NameOfTag(frags[i + 2].n))>>, -1, frags[i + 2].n)
    [] IsStartTag(frags, i) ->
         With(TokAttrs(frags, i + 2, <<>>), LAMBDA a :
           Piece(a.ok, a.next, <<StartElement(NameOfTag(frags[i + 1].n), a.attr)>>, 1,
                 frags[i + 1].n))
    [] OTHER -> NoPiece(i)

Pieces(frags) ==
  [i \in 1..Len(frags) |-> IF Begins(frags, i) THEN PieceAt(frags, i) ELSE NoPiece(i)]

Least(S) == CHOOSE i \in S : \A j \in S : i <= j

Greatest(S) == CHOOSE i \in S : \A j \in S : j <= i

\* the first fragment that no well-formed piece holds, Len + 1 if none
FirstGap(p) ==
  Least((1..(Len(p) + 1)) \ UNION {i..(p[i].next - 1) : i \in {k \in DOMAIN p : p[k].ok}})

\* the number of elements open before fragment i
Depths(p) ==
  [i \in 1..(Len(p) + 1) |->
     Cardinality({k \in 1..(i - 1) : p[k].ok /\ p[k].d = 1})
       - Cardinality({k \in 1..(i - 1) : p[k].ok /\ p[k].d = -1})]

\* the opening tags before fragment i that a closing tag at i can close
Openers(p, dep, i) == {k \in 1..(i - 1) : p[k].ok /\ p[k].d = 1 /\ dep[k] = dep[i] - 1}

\* the closing tag at fragment i closes no element, or not the innermost
Mismatched(p, dep, i) ==
  /\ p[i].ok /\ p[i].d = -1
  /\ \/ Openers(p, dep, i) = {}
     \/ p[Greatest(Openers(p, dep, i))].n # p[i].n

\* the fragment at which the tokenizer stops with a syntax error,
\* Len + 1 if it reads all of them
StopsAt(p, dep) == Least({FirstGap(p)} \cup {i \in DOMAIN p : Mismatched(p, dep, i)})

\* the tokens of the pieces before fragment stop, in order
TokensBefore(p, stop) ==
  With(SelectSeq([i \in 1..Len(p) |-> i], LAMBDA i : i < stop /\ p[i].ok /\ p[i].tok # <<>>),
       LAMBDA at : [k \in 1..Len(at) |-> p[at[k]].tok[1]])

TokPieces(p, dep, stop) ==
  Stream(TokensBefore(p, stop),
         IF stop <= Len(p) \/ dep[stop] # 0 THEN "SyntaxError" ELSE "EOF")

Tokenize(frags) ==
  With(Pieces(frags), LAMBDA p :
    With(Depths(p), LAMBDA dep : TokPieces(p, dep, StopsAt(p, dep))))

(***************************************************************************)
(* The decoder (decoder.go).  x is what a call reads and never changes:    *)
(* the namespace table, the stream and the order in which this call's      *)
(* range over the registry visits the types.  s is what it changes:        *)
(* [pos, tm, ev], the cursor (the index of the next token), the registry   *)
(* and a log of what the call did, which only the properties read.         *)
(***************************************************************************)
\* the program constants of the slice growth
MinCap == 4
GrowFactor == 2

DecEnv(prefixMap, uriMap, stream, rev) ==
  [prefixMap |-> prefixMap, uriMap |-> uriMap, toks |-> stream.toks, tail |-> stream.tail,
   rev |-> rev]

DecState(pos, tm, ev) == [pos |-> pos, tm |-> tm, ev |-> ev]

\* a log entry: what happened (e), on which type (t), with two indices
Ev(e, t, i, j) == [e |-> e, t |-> t, i |-> i, j |-> j]

Log(s, e) == [s EXCEPT !.ev = Append(@, e)]

DecResult(val, s, err) == [val |-> val, s |-> s, err |-> err]

\* d.parser.Token() with the cursor at pos
HasToken(x, pos) == pos <= Len(x.toks)

StreamErr(x) == <<x.tail>>

\* a range over the registry visits the types in an order of its own; the
\* model lets a call visit them in this order or in its reverse
TypeOrder ==
  <<"int", "string", "chan int", "Time", "Rec", "Box", "Stamp", "Bag", "BadA", "BadE",
    "[]Rec", "[]Box", "[]int", "[]interface{}">>

\* getTypeByName: the first type visited whose descriptor has the name,
\* "" for nil
getTypeByName(tm, rev, name) ==
  LET hits == {i \in 1..Len(TypeOrder) :
                 TypeOrder[i] \in DOMAIN tm /\ tm[TypeOrder[i]].name = name}
  IN IF hits = {} THEN ""
     ELSE IF rev THEN TypeOrder[CHOOSE i \in hits : \A j \in hits : j <= i]
     ELSE TypeOrder[CHOOSE i \in hits : \A j \in hits : i <= j]

\* copyValue: the destination after the call and the error returned
copyValue(dst, src) ==
  CASE dst.k = "Int" ->
         LET r == ParseInt(src)
         IN IF r.ok THEN [val |-> [dst EXCEPT !.i = r.v], err |-> Nil]
            ELSE [val |-> dst, err |-> <<"NumError">>]
    [] dst.k = "String" -> [val |-> [dst EXCEPT !.s = src], err |-> Nil]
    [] dst.k = "Struct" /\ dst.t = "Time" ->
         LET r == ParseTime(src)
         IN IF r.ok THEN [val |-> [dst EXCEPT !.tm = r.v], err |-> Nil]
            ELSE [val |-> dst, err |-> <<"ParseError">>]
    [] OTHER -> [val |-> dst, err |-> Nil]

\* unmarshal, start == nil: the cursor after the first StartElement at or
\* after pos, 0 when the stream ends first
NextStart(x, pos) ==
  LET starts == {i \in pos..Len(x.toks) : x.toks[i].k = "StartElement"}
  IN IF starts = {} THEN 0 ELSE (CHOOSE i \in starts : \A j \in starts : i <= j) + 1

\* unmarshal, the leaf case: the loop that gathers the character data at
\* depth 0 up to the closing tag; [data, pos, err]
RECURSIVE leafLoop(_, _, _, _)
leafLoop(x, pos, depth, data) ==
  IF ~HasToken(x, pos) THEN [data |-> data, pos |-> pos, err |-> StreamErr(x)]
  ELSE LET t == x.toks[pos] IN
       CASE t.k = "StartElement" -> leafLoop(x, pos + 1, depth + 1, data)
         [] t.k = "CharData" ->
              leafLoop(x, pos + 1, depth, IF depth = 0 THEN data \o t.Data ELSE data)
         [] t.k = "EndElement" ->
              IF depth = 0 THEN [data |-> data, pos |-> pos + 1, err |-> Nil]
              ELSE leafLoop(x, pos + 1, depth - 1, data)

\* a loop that stops at the first closing tag, whatever the depth
skipToFirstEnd(x, pos, depth) ==
  IF \E p \in pos..Len(x.toks) : x.toks[p].k = "EndElement"
  THEN [pos |-> (CHOOSE p \in pos..Len(x.toks) :
                   /\ x.toks[p].k = "EndElement"
                   /\ \A q \in pos..(p - 1) : x.toks[q].k # "EndElement") + 1,
        err |-> Nil]
  ELSE [pos |-> Len(x.toks) + 1, err |-> StreamErr(x)]

\* unmarshalFields, the loop that eats an element no field matched:
\* [pos, err]
RECURSIVE skipLoop(_, _, _)
skipLoop(x, pos, depth) ==
  IF ~HasToken(x, pos) THEN [pos |-> pos, err |-> StreamErr(x)]
  ELSE LET t == x.toks[pos] IN
       CASE t.k = "StartElement" -> skipLoop(x, pos + 1, depth + 1)
         [] t.k = "EndElement" ->
              IF depth = 0 THEN [pos |-> pos + 1, err |-> Nil]
              ELSE skipLoop(x, pos + 1, depth - 1)
         [] OTHER -> skipLoop(x, pos + 1, depth)

\* unmarshalFields, the attribute loop's inner loop: the first field from
\* j on that is flagged fAttr and has the attribute's name, 0 when none
RECURSIVE attrField(_, _, _)
attrField(ti, attr, j) ==
  IF j > Len(ti.fields) THEN 0
  ELSE IF fAttr \in ti.fields[j].flags /\ ti.fields[j].name = attr.Name THEN j
  ELSE attrField(ti, attr, j + 1)

\* unmarshalFields, the attribute loop, from attribute i on
RECURSIVE attrLoop(_, _, _, _, _)
attrLoop(val, ti, attrs, i, s) ==
  IF i > Len(attrs) THEN DecResult(val, s, Nil)
  ELSE LET j == attrField(ti, attrs[i], 1) IN
       IF j = 0 THEN attrLoop(val, ti, attrs, i + 1, s)
       ELSE LET fi == ti.fields[j]
                r == copyValue(val.f[fi.index], attrs[i].Value)
                s1 == Log(s, Ev("attr", val.t, fi.index, i))
            IN IF r.err # Nil THEN DecResult(val, Log(s1, Ev("copyValueErr", val.t, fi.index, i)), r.err)
               ELSE attrLoop([val EXCEPT !.f[fi.index] = r.val], ti, attrs, i + 1, s1)

\* an inner loop that looks at the names only, not at the fAttr flag
RECURSIVE elemFieldByName(_, _, _)
elemFieldByName(ti, name, j) ==
  IF j > Len(ti.fields) THEN 0
  ELSE IF ti.fields[j].name = name \/ fInterface \in ti.fields[j].flags THEN j
  ELSE elemFieldByName(ti, name, j + 1)

\* unmarshalFields, the element loop's inner loop: the first field from j
\* on that is not flagged fAttr and has the tag's name or is an interface
\* slot, 0 when none
RECURSIVE elemField(_, _, _)
elemField(ti, name, j) ==
  IF j > Len(ti.fields) THEN 0
  ELSE IF fAttr \notin ti.fields[j].flags
          /\ (ti.fields[j].name = name \/ fInterface \in ti.fields[j].flags) THEN j
  ELSE elemField(ti, name, j + 1)

\* the slice after unmarshal's growth step: a backing array of
\* max(MinCap, GrowFactor * n) zero slots when the length has reached the
\* capacity.  back holds the slots of the backing array beyond the length
growSlice(val) ==
  LET n == Len(val.a)
      ncap == IF GrowFactor * n < MinCap THEN MinCap ELSE GrowFactor * n
  IN IF n >= n + Len(val.back)
     THEN [val EXCEPT !.back = [i \in 1..(ncap - n) |-> ZeroValue(Elem(val.t))]]
     ELSE val

RECURSIVE unmarshal(_, _, _, _)
RECURSIVE unmarshalFields(_, _, _, _)
RECURSIVE elemLoop(_, _, _, _)

\* unmarshal, the slice case after the item r was decoded into the first
\* spare slot of g: the length grows by one only when the item decoded
sliceItem(g, r) ==
  IF r.err # Nil
  THEN DecResult([g EXCEPT !.back[1] = r.val], r.s, r.err)
  ELSE DecResult([g EXCEPT !.a = Append(@, r.val), !.back = Tail(@)], r.s, Nil)

\* unmarshal, the interface case after the value r of the named type was
\* decoded: the slot is set only when it decoded
ifaceItem(val, r) ==
  IF r.err # Nil THEN DecResult(val, r.s, r.err)
  ELSE DecResult([val EXCEPT !.d = <<r.val>>], r.s, Nil)

\* unmarshal, the leaf case after the text l was gathered: copyValue's
\* error is dropped
leafItem(val, s, l) ==
  IF l.err # Nil THEN DecResult(val, [s EXCEPT !.pos = l.pos], l.err)
  ELSE With(copyValue(val, l.data), LAMBDA c :
         DecResult(c.val,
                   IF c.err # Nil
                   THEN Log([s EXCEPT !.pos = l.pos], Ev("copyValueErr", val.t, 0, 0))
                   ELSE [s EXCEPT !.pos = l.pos],
                   Nil))

\* unmarshal once the start tag st is in hand, the cursor of s after it
unmarshalAt(x, val, st, s) ==
  CASE val.k = "Struct" -> unmarshalFields(x, val, st, s)
    [] val.k = "Slice" ->
         With(growSlice(val), LAMBDA g :
           With(unmarshal(x, g.back[1], <<st>>, s), LAMBDA r : sliceItem(g, r)))
    [] val.k = "Interface" ->
         With(getTypeByName(s.tm, x.rev, st.Name), LAMBDA ntyp :
           IF ntyp = ""
           THEN DecResult(val, Log(s, Ev("unknown", "", s.pos - 1, 0)), Nil)
           ELSE With(unmarshal(x, ZeroValue(ntyp), <<st>>, s), LAMBDA r : ifaceItem(val, r)))
    [] val.k = "Ptr" ->
         With(unmarshal(x, IF val.p = <<>> THEN ZeroValue(Elem(val.t)) ELSE val.p[1],
                        <<st>>, s),
              LAMBDA r : DecResult([val EXCEPT !.p = <<r.val>>], r.s, r.err))
    [] OTHER ->
         With(leafLoop(x, s.pos, 0, <<>>), LAMBDA l : leafItem(val, s, l))

\* unmarshal; start is the optional *xml.StartElement: when it is nil the
\* tokens up to the next StartElement are read
unmarshal(x, val, start, s) ==
  IF start # <<>> THEN unmarshalAt(x, val, start[1], s)
  ELSE With(NextStart(x, s.pos), LAMBDA p :
         IF p = 0
         THEN DecResult(val, [s EXCEPT !.pos = Len(x.toks) + 1], StreamErr(x))
         ELSE unmarshalAt(x, val, x.toks[p - 1], [s EXCEPT !.pos = p]))

\* unmarshalFields
unmarshalFields(x, val, start, s) ==
  With(getTypeInfo(s.tm, x.uriMap, val.t), LAMBDA tm1 :
    With(attrLoop(val, tm1[val.t], start.Attr, 1, [s EXCEPT !.tm = tm1]), LAMBDA a :
      IF a.err # Nil THEN a ELSE elemLoop(x, a.val, tm1[val.t], a.s)))

\* unmarshalFields, the element loop after the child r was decoded into
\* the field fi
elemItem(x, val, ti, fi, r) ==
  IF r.err # Nil
  THEN DecResult([val EXCEPT !.f[fi.index] = r.val], r.s, r.err)
  ELSE elemLoop(x, [val EXCEPT !.f[fi.index] = r.val], ti, r.s)

\* unmarshalFields, the element loop at the start tag t, read at the cursor
\* of s
elemStart(x, val, ti, t, s) ==
  With(elemField(ti, t.Name, 1), LAMBDA j :
    IF j # 0
    THEN With(unmarshal(x, val.f[ti.fields[j].index], <<t>>,
                        Log([s EXCEPT !.pos = @ + 1],
                            Ev("elem", val.t, ti.fields[j].index, s.pos))),
              LAMBDA r : elemItem(x, val, ti, ti.fields[j], r))
    ELSE With(skipLoop(x, s.pos + 1, 0), LAMBDA k :
           IF k.err # Nil
           THEN DecResult(val, Log([s EXCEPT !.pos = k.pos], Ev("skip", val.t, s.pos, k.pos)),
                          k.err)
           ELSE elemLoop(x, val, ti,
                         Log([s EXCEPT !.pos = k.pos], Ev("skip", val.t, s.pos, k.pos)))))

\* unmarshalFields, the element loop
elemLoop(x, val, ti, s) ==
  IF ~HasToken(x, s.pos) THEN DecResult(val, s, StreamErr(x))
  ELSE CASE x.toks[s.pos].k = "StartElement" ->
              With(lookupNamespaceUri(x.uriMap, x.toks[s.pos].Name.Space), LAMBDA uri :
                elemStart(x, val, ti,
                          IF uri # "" THEN [x.toks[s.pos] EXCEPT !.Name.Space = uri]
                          ELSE x.toks[s.pos],
                          s))
         [] x.toks[s.pos].k = "EndElement" -> DecResult(val, [s EXCEPT !.pos = @ + 1], Nil)
         [] OTHER -> elemLoop(x, val, ti, [s EXCEPT !.pos = @ + 1])

\* DecodeElement's loop over a top-level sequence: unmarshal until an error
RECURSIVE topLoop(_, _, _)
topLoop(x, val, s) ==
  With(unmarshal(x, val, <<>>, s), LAMBDA r :
    IF r.err # Nil THEN r ELSE topLoop(x, r.val, r.s))

\* DecodeElement for a sequence: the first unmarshal's error is overwritten
\* by the loop's, and io.EOF ends the loop without an error
decodeSlice(x, elem, start, s) ==
  With(unmarshal(x, elem, start, s), LAMBDA first :
    With(topLoop(x, first.val, first.s), LAMBDA r :
      DecResult(r.val, r.s, IF r.err = <<"EOF">> THEN Nil ELSE r.err)))

\* Decoder.DecodeElement(v, start) with the decoder's cursor at pos: v is
\* the value passed, start the optional start tag
DecodeElementFrom(x, tm, v, start, pos) ==
  IF v.k # "Ptr"
  THEN DecResult(v, DecState(pos, tm, <<>>), <<"xmlutil: non-pointer passed to Unmarshal">>)
  ELSE With(IF v.p[1].k = "Slice"
            THEN decodeSlice(x, v.p[1], start, DecState(pos, tm, <<>>))
            ELSE unmarshal(x, v.p[1], start, DecState(pos, tm, <<>>)),
            LAMBDA r : DecResult([v EXCEPT !.p = <<r.val>>], r.s, r.err))

\* Decoder.DecodeElement(v, start) by a new Decoder
DecodeElement(x, tm, v, start) == DecodeElementFrom(x, tm, v, start, 1)

\* Decoder.Decode
Decode(x, tm, v) == DecodeElement(x, tm, v, <<>>)

\* whether the token is a StartElement whose name is one of names
IsNamedStart(tok, names) ==
  tok.k = "StartElement" /\ \E n \in 1..Len(names) : names[n] = tok.Name

\* a scan that stops at the first StartElement, whatever its name
RECURSIVE findAnyStart(_, _, _)
findAnyStart(x, names, pos) ==
  IF ~HasToken(x, pos) THEN [start |-> <<>>, pos |-> pos, err |-> StreamErr(x)]
  ELSE IF x.toks[pos].k = "StartElement"
  THEN [start |-> <<x.toks[pos]>>, pos |-> pos + 1, err |-> Nil]
  ELSE findAnyStart(x, names, pos + 1)

\* Decoder.Find(names) with the cursor at pos: the start tag returned, the
\* cursor after the call and the error
RECURSIVE Find(_, _, _)
Find(x, names, pos) ==
  IF ~HasToken(x, pos) THEN [start |-> <<>>, pos |-> pos, err |-> StreamErr(x)]
  ELSE IF IsNamedStart(x.toks[pos], names)
  THEN [start |-> <<x.toks[pos]>>, pos |-> pos + 1, err |-> Nil]
  ELSE Find(x, names, pos + 1)

(***************************************************************************)
(* The locks and the goroutines.  A sync.RWMutex is the goroutine between  *)
(* Lock and Unlock (w), the goroutines between RLock and RUnlock (r) and   *)
(* the goroutines blocked in Lock (q).  RLock blocks while a writer holds  *)
(* the lock, and while a writer is blocked behind readers.                 *)
(***************************************************************************)
Unlocked == [w |-> "", r |-> {}, q |-> {}]

CanRLock(m) == m.w = "" /\ (m.q = {} \/ m.r = {})

RLock(m, g) == [m EXCEPT !.r = @ \cup {g}]

\* a release that leaves the lock as it is
noRelease(m, g) == m

RUnlock(m, g) == [m EXCEPT !.r = @ \ {g}]

\* Lock, blocked: the goroutine waits for the lock
LockWait(m, g) == [m EXCEPT !.q = @ \cup {g}]

CanLock(m, g) == g \in m.q /\ m.w = "" /\ m.r = {}

\* Lock, returning
Lock(m, g) == [m EXCEPT !.w = g, !.q = @ \ {g}]

Unlock(m, g) == [m EXCEPT !.w = ""]

Holds(m, g) == m.w = g \/ g \in m.r

Goroutines == {"g1", "g2"}

\* a goroutine: the call it is in (op) and where in it (at), the call's
\* arguments and locals, what the call returned, and the calls, token reads
\* and writes it has made (n)
NoCall ==
  [at |-> "idle", op |-> "", typ |-> "", name |-> NoName, attrs |-> <<>>,
   ok |-> FALSE, ti |-> <<>>, todo |-> <<>>, seen |-> <<>>,
   uri |-> "", prefix |-> "", ret |-> "", panicked |-> FALSE, n |-> 0]

(***************************************************************************)
(* The state machine.  typeMap, nsPrefixMap and nsUriMap are the fields of *)
(* the XmlUtil.  last is the call in hand: a caller makes a call when none *)
(* is in hand, the call leaves its arguments and what it returned in last, *)
(* and Discard is the caller letting go of them.                           *)
(***************************************************************************)
Idle == [op |-> "idle"]

Init ==
  /\ typeMap = <<>>
  /\ nsPrefixMap = [u \in {"xmlns"} |-> "xmlns"]
  /\ nsUriMap = [p \in {"xmlns"} |-> "xmlns"]
  /\ typeLock = Unlocked
  /\ nsLock = Unlocked
  /\ gor = [g \in Goroutines |-> NoCall]
  /\ last = Idle

Discard ==
  /\ last # Idle
  /\ last' = Idle
  /\ UNCHANGED <<typeMap, nsPrefixMap, nsUriMap, conc>>

\* RegisterNamespace(uri, prefix)
RegisterNamespace(uri, prefix) ==
  /\ last = Idle
  /\ nsPrefixMap' = MapPut(nsPrefixMap, uri, prefix)
  /\ nsUriMap' = MapPut(nsUriMap, prefix, uri)
  /\ last' = [op |-> "RegisterNamespace", uri |-> uri, prefix |-> prefix]
  /\ UNCHANGED <<typeMap, conc>>

\* RegisterTypeMore(value, name, attrs); typ is reflect.TypeOf(value), and
\* pre is the registry the call found
RegisterTypeMore(typ, name, attrs) ==
  /\ last = Idle
  /\ typeMap' = IF typ \in DOMAIN typeMap THEN typeMap
                ELSE registerType(typeMap, nsUriMap, typ, name, attrs)
  /\ last' = [op |-> "RegisterTypeMore", typ |-> typ, name |-> name,
              panicked |-> typ \in DOMAIN typeMap, pre |-> typeMap]
  /\ UNCHANGED <<nsPrefixMap, nsUriMap, conc>>

\* RegisterType(value)
RegisterType(typ) == RegisterTypeMore(typ, NoName, <<>>)

\* getTypeInfo(typ), the lookup Encode and Decode make for a type they meet
LazyLookup(typ) ==
  /\ last = Idle
  /\ typeMap' = getTypeInfo(typeMap, nsUriMap, typ)
  /\ last' = [op |-> "getTypeInfo", typ |-> typ, pre |-> typeMap]
  /\ UNCHANGED <<nsPrefixMap, nsUriMap, conc>>

\* the inputs of the registry's calls
RegTypes == {"Rec", "*Rec", "**Rec", "Box"}
RegNames == {NoName, XmlName("urn:example", "Item")}
RegAttrs == {<<>>, <<XmlAttr(XmlName("", "version"), <<"1">>)>>}
Uris == {"urn:example", "xmlns"}
Prefixes == {"ex", "xmlns"}

Next ==
  \/ \E uri \in Uris, prefix \in Prefixes : RegisterNamespace(uri, prefix)
  \/ \E typ \in RegTypes, name \in RegNames, attrs \in RegAttrs :
       RegisterTypeMore(typ, name, attrs)
  \/ \E typ \in RegTypes : RegisterType(typ)
  \/ \E typ \in RegTypes : LazyLookup(typ)
  \/ Discard

Spec == Init /\ [][Next]_vars

\* C1: a RegisterType/RegisterTypeMore call for a value whose type, after
\* following pointer indirection, already has a descriptor panics and leaves
\* the registry as it found it, whether the value is passed directly or
\* through a pointer.
C1_ReRegistrationFailsFast ==
  (last.op = "RegisterTypeMore" /\ Deref(last.typ) \in DOMAIN last.pre)
    => (last.panicked /\ typeMap = last.pre)

(***************************************************************************)
(* Decoding.  The documents are token streams as the tokenizer delivers    *)
(* them for well-formed input: a root element with up to MaxKids children  *)
(* for a structured destination, up to MaxTop top-level elements for a     *)
(* sequence destination.                                                   *)
(***************************************************************************)
Nm(local) == XmlName("", local)

Txt(s) == <<CharData(s)>>

El(name, attrs, content) == <<StartElement(name, attrs)>> \o content \o <<EndElement(name)>>

RECURSIVE Flatten(_)
Flatten(ss) == IF ss = <<>> THEN <<>> ELSE Head(ss) \o Flatten(Tail(ss))

SeqsUpTo(S, n) == UNION {[1..m -> S] : m \in 0..n}

\* <N>12</N>, <N>x</N>, <N>4<b>5</b>6</N>, <Foo>b</Foo>, <ex:Foo>a</ex:Foo>
\* and <Unk>u<Deep><N>9</N></Deep>v</Unk>
RecKids ==
  { El(Nm("N"), <<>>, Txt(<<"1", "2">>)),
    El(Nm("N"), <<>>, Txt(<<"x">>)),
    El(Nm("N"), <<>>, Txt(<<"4">>) \o El(Nm("b"), <<>>, Txt(<<"5">>)) \o Txt(<<"6">>)),
    El(Nm("Foo"), <<>>, Txt(<<"b">>)),
    El(XmlName("ex", "Foo"), <<>>, Txt(<<"a">>)),
    El(Nm("Unk"), <<>>,
       Txt(<<"u">>) \o El(Nm("Deep"), <<>>, El(Nm("N"), <<>>, Txt(<<"9">>))) \o Txt(<<"v">>)) }

\* no attribute, N="7", N="x", and N="+3" Foo="q"
RecAttrs ==
  { <<>>,
    <<XmlAttr(Nm("N"), <<"7">>)>>,
    <<XmlAttr(Nm("N"), <<"x">>)>>,
    <<XmlAttr(Nm("N"), <<"+", "3">>), XmlAttr(Nm("Foo"), <<"q">>)>> }

\* <Unk>u<Deep><N>9</N></Deep>v</Unk> between two children out of <N>12</N>
\* and <Foo>b</Foo>
AmongDocs ==
  {El(Nm("Rec"), <<>>,
      k1 \o El(Nm("Unk"), <<>>,
               Txt(<<"u">>) \o El(Nm("Deep"), <<>>, El(Nm("N"), <<>>, Txt(<<"9">>)))
                 \o Txt(<<"v">>))
         \o k2) :
     k1, k2 \in {El(Nm("N"), <<>>, Txt(<<"1", "2">>)), El(Nm("Foo"), <<>>, Txt(<<"b">>))}}

RecDocs ==
  {El(Nm("Rec"), a, Flatten(ks)) : a \in RecAttrs, ks \in SeqsUpTo(RecKids, MaxKids)}
    \cup AmongDocs

\* <Name>b</Name>, <Inner N="7"><N>3</N></Inner>, <Item N="1"></Item>,
\* <Rec N="5"><N>6</N></Rec> and <Cat>c<Name>z</Name></Cat>
BoxKids ==
  { El(Nm("Name"), <<>>, Txt(<<"b">>)),
    El(Nm("Inner"), <<XmlAttr(Nm("N"), <<"7">>)>>, El(Nm("N"), <<>>, Txt(<<"3">>))),
    El(Nm("Item"), <<XmlAttr(Nm("N"), <<"1">>)>>, <<>>),
    El(Nm("Rec"), <<XmlAttr(Nm("N"), <<"5">>)>>, El(Nm("N"), <<>>, Txt(<<"6">>))),
    El(Nm("Cat"), <<>>, Txt(<<"c">>) \o El(Nm("Name"), <<>>, Txt(<<"z">>))) }

BoxDocs == {El(Nm("Box"), <<>>, Flatten(ks)) : ks \in SeqsUpTo(BoxKids, MaxKids)}

\* <When>2020-01-02T03:04:05Z</When> and <When>x</When>
StampKids ==
  { El(Nm("When"), <<>>, Txt(<<TimeSyms[2]>>)),
    El(Nm("When"), <<>>, Txt(<<"x">>)) }

\* no attribute, At="2020-01-02T03:04:05.5Z" and At="x"
StampAttrs ==
  { <<>>, <<XmlAttr(Nm("At"), <<TimeSyms[3]>>)>>, <<XmlAttr(Nm("At"), <<"x">>)>> }

StampDocs ==
  {El(Nm("Stamp"), a, Flatten(ks)) : a \in StampAttrs, ks \in SeqsUpTo(StampKids, MaxKids)}

\* <Rec N="5"><N>6</N></Rec>, <Rec N="x"></Rec> and <Cat>c<Rec></Rec></Cat>
TopElems ==
  { El(Nm("Rec"), <<XmlAttr(Nm("N"), <<"5">>)>>, El(Nm("N"), <<>>, Txt(<<"6">>))),
    El(Nm("Rec"), <<XmlAttr(Nm("N"), <<"x">>)>>, <<>>),
    El(Nm("Cat"), <<>>, Txt(<<"c">>) \o El(Nm("Rec"), <<>>, <<>>)) }

TopDocs == {Flatten(es) : es \in SeqsUpTo(TopElems, MaxTop)}

\* a Rec already in a destination
OldRec == StructV("Rec", <<IntV(1), IntV(0), IntV(2), StrV(<<"o">>)>>)

\* the sequence destinations: nil, make([]T, 0, 2), and one item at capacity
SliceTargets(typ, item) ==
  { SliceV(typ, <<>>, <<>>),
    SliceV(typ, <<>>, <<ZeroValue(Elem(typ)), ZeroValue(Elem(typ))>>),
    SliceV(typ, <<item>>, <<>>) }

\* the destinations Decode is given, each with the documents it is run on
DecodeInputs ==
  {[v |-> PtrV("*Rec", <<ZeroValue("Rec")>>), toks |-> d] : d \in RecDocs}
    \cup {[v |-> PtrV("*Box", <<ZeroValue("Box")>>), toks |-> d] : d \in BoxDocs}
    \cup {[v |-> PtrV("*Stamp", <<ZeroValue("Stamp")>>), toks |-> d] : d \in StampDocs}
    \cup {[v |-> PtrV("*[]Rec", <<t>>), toks |-> d] :
            t \in SliceTargets("[]Rec", OldRec), d \in TopDocs}
    \cup {[v |-> PtrV("*[]interface{}", <<t>>), toks |-> d] :
            t \in SliceTargets("[]interface{}", IfaceV(<<IntV(1)>>)), d \in TopDocs}
    \cup {[v |-> ZeroValue("Rec"), toks |-> d] : d \in {El(Nm("Rec"), <<>>, <<>>)}}

\* Decoder.Decode(v) by a new Decoder on the document toks; rev is the order
\* of this call's ranges over the registry
DecodeDoc(in, rev) ==
  /\ last = Idle
  /\ \E r \in {Decode(DecEnv(nsPrefixMap, nsUriMap, Stream(in.toks, "EOF"), rev), typeMap, in.v)} :
       /\ typeMap' = r.s.tm
       /\ last' = [op |-> "Decode", v |-> in.v, toks |-> in.toks, res |-> r.val,
                   err |-> r.err, pos |-> r.s.pos, ev |-> r.s.ev]
  /\ UNCHANGED <<nsPrefixMap, nsUriMap, conc>>

\* the candidate names Find is given
FindNames ==
  { <<>>, <<Nm("Rec")>>, <<Nm("Zed"), Nm("N")>>, <<Nm("Deep"), Nm("Foo")>>, <<Nm("Zed")>> }

\* the documents Find is run on
FindDocs == TopDocs \cup AmongDocs

\* Decoder.Find(names) by a new Decoder on the document toks
FindDoc(toks, names) ==
  /\ last = Idle
  /\ \E r \in {Find(DecEnv(nsPrefixMap, nsUriMap, Stream(toks, "EOF"), FALSE), names, 1)} :
       last' = [op |-> "Find", toks |-> toks, names |-> names, start |-> r.start,
                pos |-> r.pos, err |-> r.err]
  /\ UNCHANGED <<typeMap, nsPrefixMap, nsUriMap, conc>>

\* the destinations DecodeElement is given with a start tag that Find found
FoundTargets ==
  {PtrV("*[]Rec", <<t>>) : t \in SliceTargets("[]Rec", OldRec)}
    \cup {PtrV("*Rec", <<ZeroValue("Rec")>>)}

\* Decoder.DecodeElement(v, start) by the Decoder of the Find in hand, with
\* the start tag that Find returned
DecodeFound(v, rev) ==
  /\ last.op = "Find"
  /\ last.err = Nil
  /\ \E r \in {DecodeElementFrom(DecEnv(nsPrefixMap, nsUriMap, Stream(last.toks, "EOF"), rev),
                                 typeMap, v, last.start, last.pos)} :
       /\ typeMap' = r.s.tm
       /\ last' = [op |-> "DecodeElement", v |-> v, toks |-> last.toks, start |-> last.start,
                   from |-> last.pos, res |-> r.val, err |-> r.err, pos |-> r.s.pos,
                   ev |-> r.s.ev]
  /\ UNCHANGED <<nsPrefixMap, nsUriMap, conc>>

NextDec ==
  \/ RegisterNamespace("urn:example", "ex")
  \/ RegisterTypeMore("Stamp", Nm("Rec"), <<>>)
  \/ \E in \in DecodeInputs, rev \in BOOLEAN : DecodeDoc(in, rev)
  \/ \E toks \in FindDocs, names \in FindNames : FindDoc(toks, names)
  \/ \E v \in FoundTargets, rev \in BOOLEAN : DecodeFound(v, rev)
  \/ Discard

SpecDec == Init /\ [][NextDec]_vars

(***************************************************************************)
(* Encoding, and decoding what was encoded.  Encode leaves the value and   *)
(* what reached the sink in last; DecodeEncoded is the caller handing a    *)
(* sink that Encode filled without an error to a new Decoder, with a new   *)
(* zero value of the same type as the destination.                         *)
(***************************************************************************)
RecValues ==
  {StructV("Rec", <<IntV(id), IntV(0), IntV(n), StrV(foo)>>) :
     id \in {0, 7}, n \in {0, 12}, foo \in {<<>>, <<"a">>, <<"<", "b">>}}

\* the two Recs that the Boxes hold
RecA == StructV("Rec", <<IntV(7), IntV(0), IntV(12), StrV(<<"a">>)>>)
RecB == StructV("Rec", <<IntV(0), IntV(0), IntV(0), StrV(<<>>)>>)

\* Any holds nil, a Rec, an int or a BadE
BoxValues ==
  {StructV("Box", <<StrV(<<"n">>), inner, SliceV("[]Rec", items, <<>>), IfaceV(any)>>) :
     inner \in {RecA, RecB},
     items \in SeqsUpTo({RecA, RecB}, MaxItems),
     any \in {<<>>, <<RecA>>, <<IntV(3)>>, <<StructV("BadE", <<ChanV>>)>>}}

StampValues == {StructV("Stamp", <<TimeV(at), TimeV(when)>>) : at \in {0, 2}, when \in {0, 1}}

\* Ref is nil or points to a Rec; Things is nil, holds a Rec, or an int and
\* a nil interface
BagValues ==
  {StructV("Bag", <<PtrV("*Rec", ref), SliceV("[]interface{}", things, <<>>), StrV(<<"t">>)>>) :
     ref \in {<<>>, <<RecA>>},
     things \in {<<>>, <<IfaceV(<<RecA>>)>>, <<IfaceV(<<IntV(3)>>), IfaceV(<<>>)>>}}

\* the values Encode is given: structs, pointers to structs, a nil pointer
\* and nil
EncodeInputs ==
  RecValues \cup BoxValues \cup StampValues \cup BagValues \cup {InvalidV}
    \cup {StructV("BadA", <<ChanV>>), StructV("BadE", <<ChanV>>)}
    \cup {PtrV("*Rec", <<RecA>>), PtrV("*Rec", <<>>), PtrV("*Stamp", <<StructV("Stamp", <<TimeV(2), TimeV(0)>>)>>)}

\* Encoder.Encode(v) by a new Encoder on an empty sink
EncodeValue(v) ==
  /\ last = Idle
  /\ \E r \in {Encode([prefixMap |-> nsPrefixMap, uriMap |-> nsUriMap], typeMap, v)} :
       /\ typeMap' = r.tm
       /\ last' = [op |-> "Encode", v |-> v, sink |-> r.sink, err |-> r.err]
  /\ UNCHANGED <<nsPrefixMap, nsUriMap, conc>>

\* the type a value is of once its pointers are followed
ValueType(v) == IF v.k = "Ptr" THEN Deref(v.t) ELSE v.t

\* reflect.PtrTo for the struct types of the model
PtrTo(t) == CHOOSE p \in {"*Rec", "*Box", "*Stamp", "*Bag", "*BadA"} : Elem(p) = t

\* Decoder.Decode(new(T)) by a new Decoder on the sink of the Encode in hand
DecodeEncoded(rev) ==
  /\ last.op = "Encode"
  /\ last.err = Nil
  /\ last.v.k # "Invalid"
  /\ \E r \in {Decode(DecEnv(nsPrefixMap, nsUriMap, Tokenize(last.sink), rev), typeMap,
                      PtrV(PtrTo(ValueType(last.v)), <<ZeroValue(ValueType(last.v))>>))} :
       /\ typeMap' = r.s.tm
       /\ last' = [op |-> "DecodeEncoded", v |-> last.v, sink |-> last.sink,
                   toks |-> Tokenize(last.sink).toks, res |-> r.val, err |-> r.err,
                   pos |-> r.s.pos, ev |-> r.s.ev]
  /\ UNCHANGED <<nsPrefixMap, nsUriMap, conc>>

NextEnc ==
  \/ RegisterNamespace("urn:example", "ex")
  \/ \E v \in EncodeInputs : EncodeValue(v)
  \/ \E rev \in BOOLEAN : DecodeEncoded(rev)
  \/ Discard

SpecEnc == Init /\ [][NextEnc]_vars

(***************************************************************************)
(* Concurrent callers.  Each goroutine makes up to MaxOps calls on the     *)
(* XmlUtil, token reads and writes, as the goroutine of a user, of an      *)
(* Encoder or of a Decoder does; a call takes one step per lock operation  *)
(* and per map access, and the steps of the goroutines interleave.         *)
(***************************************************************************)
\* calls, token reads and writes of one goroutine
MaxOps == 2

\* the prefixes getFields looks up for the fields of typ it keeps, in order
RECURSIVE tagPrefixesFrom(_, _)
tagPrefixesFrom(typ, i) ==
  IF i > Len(StructFields(typ)) THEN <<>>
  ELSE (IF fieldKept(typ, i) /\ IndexColon(StructFields(typ)[i].Tag[1]) > 0
        THEN <<Join(SubSeq(StructFields(typ)[i].Tag[1], 1,
                           IndexColon(StructFields(typ)[i].Tag[1]) - 1))>>
        ELSE <<>>)
         \o tagPrefixesFrom(typ, i + 1)

tagPrefixes(typ) == IF Kind(typ) = "Struct" THEN tagPrefixesFrom(typ, 1) ELSE <<>>

\* goroutine g enters a call, reads a token or writes
Enter(g, call) ==
  /\ gor[g].at = "idle"
  /\ gor[g].n < MaxOps
  /\ gor' = [gor EXCEPT ![g] = [call EXCEPT !.n = gor[g].n + 1]]
  /\ UNCHANGED <<typeMap, typeLock, nsPrefixMap, nsUriMap, nsLock, last>>

\* the step of g that takes it to the goroutine state to
Goto(g, to) == gor' = [gor EXCEPT ![g] = to]

CallRegisterTypeMore(g, typ, name, attrs) ==
  Enter(g, [NoCall EXCEPT !.op = "RegisterTypeMore", !.at = "type.RLock",
                          !.typ = typ, !.name = name, !.attrs = attrs])

CallGetTypeInfo(g, typ) ==
  Enter(g, [NoCall EXCEPT !.op = "getTypeInfo", !.at = "type.RLock", !.typ = Deref(typ)])

CallGetTypeByName(g, name) ==
  Enter(g, [NoCall EXCEPT !.op = "getTypeByName", !.at = "type.RLock", !.name = name])

CallRegisterNamespace(g, uri, prefix) ==
  Enter(g, [NoCall EXCEPT !.op = "RegisterNamespace", !.at = "ns.Lock",
                          !.uri = uri, !.prefix = prefix])

CallLookupPrefix(g, uri) ==
  Enter(g, [NoCall EXCEPT !.op = "lookupPrefix", !.at = "ns.RLock", !.uri = uri])

CallLookupNamespaceUri(g, prefix) ==
  Enter(g, [NoCall EXCEPT !.op = "lookupNamespaceUri", !.at = "ns.RLock", !.prefix = prefix])

\* d.parser.Token() of a Decoder's goroutine
Token(g) == Enter(g, [NoCall EXCEPT !.op = "Token"])

\* e.writer.WriteByte / WriteString of an Encoder's goroutine
Write(g) == Enter(g, [NoCall EXCEPT !.op = "Write"])

\* x.typeLock.RLock()
TypeRLock(g) ==
  /\ gor[g].at = "type.RLock"
  /\ CanRLock(typeLock)
  /\ typeLock' = RLock(typeLock, g)
  /\ Goto(g, [gor[g] EXCEPT !.at = "type.read"])
  /\ UNCHANGED <<typeMap, nsPrefixMap, nsUriMap, nsLock, last>>

\* the read of typeMap under the read lock: RegisterTypeMore's and
\* getTypeInfo's x.typeMap[typ], getTypeByName's range
TypeRead(g, rev) ==
  /\ gor[g].at = "type.read"
  /\ Goto(g, [gor[g] EXCEPT
                !.at = "type.RUnlock",
                !.ok = gor[g].op # "getTypeByName" /\ gor[g].typ \in DOMAIN typeMap,
                !.ti = IF gor[g].op = "getTypeInfo" /\ gor[g].typ \in DOMAIN typeMap
                       THEN <<typeMap[gor[g].typ]>> ELSE <<>>,
                !.ret = IF gor[g].op = "getTypeByName"
                        THEN getTypeByName(typeMap, rev, gor[g].name) ELSE ""])
  /\ UNCHANGED <<typeMap, typeLock, nsPrefixMap, nsUriMap, nsLock, last>>

\* x.typeLock.RUnlock() and what follows it up to the next lock operation:
\* the return, the panic, or the start of registerType
TypeRUnlock(g) ==
  /\ gor[g].at = "type.RUnlock"
  /\ typeLock' = RUnlock(typeLock, g)
  /\ Goto(g, IF gor[g].op = "getTypeByName" \/ (gor[g].op = "getTypeInfo" /\ gor[g].ok)
             THEN [gor[g] EXCEPT !.at = "idle"]
             ELSE IF gor[g].ok
             THEN [gor[g] EXCEPT !.at = "idle", !.panicked = TRUE]
             ELSE [gor[g] EXCEPT
                     !.typ = Deref(gor[g].typ),
                     !.todo = tagPrefixes(Deref(gor[g].typ)),
                     !.at = IF tagPrefixes(Deref(gor[g].typ)) = <<>>
                            THEN "type.Lock" ELSE "ns.RLock"])
  /\ UNCHANGED <<typeMap, nsPrefixMap, nsUriMap, nsLock, last>>

\* x.nsLock.RLock() of lookupPrefix and lookupNamespaceUri
NsRLock(g) ==
  /\ gor[g].at = "ns.RLock"
  /\ CanRLock(nsLock)
  /\ nsLock' = RLock(nsLock, g)
  /\ Goto(g, [gor[g] EXCEPT !.at = "ns.read"])
  /\ UNCHANGED <<typeMap, typeLock, nsPrefixMap, nsUriMap, last>>

\* the read of nsPrefixMap or nsUriMap under the read lock; getFields keeps
\* what lookupNamespaceUri returned for the tag in hand
NsRead(g) ==
  /\ gor[g].at = "ns.read"
  /\ Goto(g, IF gor[g].op = "lookupPrefix"
             THEN [gor[g] EXCEPT !.at = "ns.RUnlock",
                                 !.ret = lookupPrefix(nsPrefixMap, gor[g].uri)]
             ELSE IF gor[g].op = "lookupNamespaceUri"
             THEN [gor[g] EXCEPT !.at = "ns.RUnlock",
                                 !.ret = lookupNamespaceUri(nsUriMap, gor[g].prefix)]
             ELSE [gor[g] EXCEPT !.at = "ns.RUnlock",
                                 !.seen = MapPut(gor[g].seen, Head(gor[g].todo),
                                                 lookupNamespaceUri(nsUriMap, Head(gor[g].todo))),
                                 !.todo = Tail(gor[g].todo)])
  /\ UNCHANGED <<typeMap, typeLock, nsPrefixMap, nsUriMap, nsLock, last>>

\* the deferred x.nsLock.RUnlock(), and getFields going on to its next tag
\* or registerType to its write
NsRUnlock(g) ==
  /\ gor[g].at = "ns.RUnlock"
  /\ nsLock' = RUnlock(nsLock, g)
  /\ Goto(g, [gor[g] EXCEPT
                !.at = IF gor[g].op \in {"lookupPrefix", "lookupNamespaceUri"} THEN "idle"
                       ELSE IF gor[g].todo = <<>> THEN "type.Lock" ELSE "ns.RLock"])
  /\ UNCHANGED <<typeMap, typeLock, nsPrefixMap, nsUriMap, last>>

\* x.typeLock.Lock() is called
TypeLock(g) ==
  /\ gor[g].at = "type.Lock"
  /\ typeLock' = LockWait(typeLock, g)
  /\ Goto(g, [gor[g] EXCEPT !.at = "type.wait"])
  /\ UNCHANGED <<typeMap, nsPrefixMap, nsUriMap, nsLock, last>>

\* x.typeLock.Lock() returns
TypeAcquire(g) ==
  /\ gor[g].at = "type.wait"
  /\ CanLock(typeLock, g)
  /\ typeLock' = Lock(typeLock, g)
  /\ Goto(g, [gor[g] EXCEPT !.at = "type.write"])
  /\ UNCHANGED <<typeMap, nsPrefixMap, nsUriMap, nsLock, last>>

\* x.typeMap[typ] = ti
TypeWrite(g) ==
  /\ gor[g].at = "type.write"
  /\ typeMap' = MapPut(typeMap, gor[g].typ,
                       newTypeInfo(gor[g].seen, gor[g].typ, gor[g].name, gor[g].attrs))
  /\ Goto(g, [gor[g] EXCEPT
                !.at = "type.Unlock",
                !.ti = <<newTypeInfo(gor[g].seen, gor[g].typ, gor[g].name, gor[g].attrs)>>])
  /\ UNCHANGED <<typeLock, nsPrefixMap, nsUriMap, nsLock, last>>

\* x.typeLock.Unlock() and the return of registerType and of its caller
TypeUnlock(g) ==
  /\ gor[g].at = "type.Unlock"
  /\ typeLock' = Unlock(typeLock, g)
  /\ Goto(g, [gor[g] EXCEPT !.at = "idle"])
  /\ UNCHANGED <<typeMap, nsPrefixMap, nsUriMap, nsLock, last>>

\* x.nsLock.Lock() is called
NsLock(g) ==
  /\ gor[g].at = "ns.Lock"
  /\ nsLock' = LockWait(nsLock, g)
  /\ Goto(g, [gor[g] EXCEPT !.at = "ns.wait"])
  /\ UNCHANGED <<typeMap, typeLock, nsPrefixMap, nsUriMap, last>>

\* x.nsLock.Lock() returns
NsAcquire(g) ==
  /\ gor[g].at = "ns.wait"
  /\ CanLock(nsLock, g)
  /\ nsLock' = Lock(nsLock, g)
  /\ Goto(g, [gor[g] EXCEPT !.at = "ns.write"])
  /\ UNCHANGED <<typeMap, typeLock, nsPrefixMap, nsUriMap, last>>

\* x.nsPrefixMap[uri] = prefix
NsWrite(g) ==
  /\ gor[g].at = "ns.write"
  /\ nsPrefixMap' = MapPut(nsPrefixMap, gor[g].uri, gor[g].prefix)
  /\ Goto(g, [gor[g] EXCEPT !.at = "ns.write2"])
  /\ UNCHANGED <<typeMap, typeLock, nsUriMap, nsLock, last>>

\* x.nsUriMap[prefix] = uri, under the same hold of the lock
NsWrite2(g) ==
  /\ gor[g].at = "ns.write2"
  /\ nsUriMap' = MapPut(nsUriMap, gor[g].prefix, gor[g].uri)
  /\ Goto(g, [gor[g] EXCEPT !.at = "ns.Unlock"])
  /\ UNCHANGED <<typeMap, typeLock, nsPrefixMap, nsLock, last>>

\* x.nsLock.Unlock() and the return of RegisterNamespace
NsUnlock(g) ==
  /\ gor[g].at = "ns.Unlock"
  /\ nsLock' = Unlock(nsLock, g)
  /\ Goto(g, [gor[g] EXCEPT !.at = "idle"])
  /\ UNCHANGED <<typeMap, typeLock, nsPrefixMap, nsUriMap, last>>

\* a step of goroutine g inside a call
Step(g) ==
  \/ TypeRLock(g)
  \/ \E rev \in BOOLEAN : TypeRead(g, rev)
  \/ TypeRUnlock(g)
  \/ NsRLock(g)
  \/ NsRead(g)
  \/ NsRUnlock(g)
  \/ TypeLock(g)
  \/ TypeAcquire(g)
  \/ TypeWrite(g)
  \/ TypeUnlock(g)
  \/ NsLock(g)
  \/ NsAcquire(g)
  \/ NsWrite(g)
  \/ NsWrite2(g)
  \/ NsUnlock(g)

\* the calls the goroutines make: Rec registered under its own name or as
\* urn:example Item, or derived on first use
ConcNames == {NoName, XmlName("urn:example", "Item")}

NextConc ==
  \/ \E g \in Goroutines, name \in ConcNames : CallRegisterTypeMore(g, "Rec", name, <<>>)
  \/ \E g \in Goroutines : CallGetTypeInfo(g, "Rec")
  \/ \E g \in Goroutines : CallGetTypeByName(g, XmlName("", "Rec"))
  \/ \E g \in Goroutines : CallRegisterNamespace(g, "urn:example", "ex")
  \/ \E g \in Goroutines : CallLookupPrefix(g, "urn:example")
  \/ \E g \in Goroutines : CallLookupNamespaceUri(g, "ex")
  \/ \E g \in Goroutines : Token(g)
  \/ \E g \in Goroutines : Write(g)
  \/ \E g \in Goroutines : Step(g)

SpecConc == Init /\ [][NextConc]_vars

(***************************************************************************)
(* The shape of a document, read off its tokens without running the        *)
(* decoder.                                                                *)
(***************************************************************************)
\* the number of elements open before token p
TokDepth(toks, p) ==
  Cardinality({q \in 1..(p - 1) : toks[q].k = "StartElement"})
    - Cardinality({q \in 1..(p - 1) : toks[q].k = "EndElement"})

\* the closing tag of the element that opens at token i
MatchingEnd(toks, i) ==
  CHOOSE e \in (i + 1)..Len(toks) :
    /\ toks[e].k = "EndElement"
    /\ TokDepth(toks, e) = TokDepth(toks, i) + 1
    /\ \A f \in (i + 1)..(e - 1) :
         ~(toks[f].k = "EndElement" /\ TokDepth(toks, f) = TokDepth(toks, i) + 1)

\* the opening tags of the children of the element that opens at token i
Children(toks, i) ==
  {c \in (i + 1)..(MatchingEnd(toks, i) - 1) :
     toks[c].k = "StartElement" /\ TokDepth(toks, c) = TokDepth(toks, i) + 1}

\* the opening tag of the element that encloses token c, 0 at top level
Parent(toks, c) ==
  LET above == {i \in 1..(c - 1) : toks[i].k = "StartElement" /\ MatchingEnd(toks, i) > c}
  IN IF above = {} THEN 0 ELSE CHOOSE i \in above : \A k \in above : k <= i

\* the opening tags at top level
TopStarts(toks) ==
  {i \in 1..Len(toks) : toks[i].k = "StartElement" /\ TokDepth(toks, i) = 0}

\* the character data directly inside the element that opens at token i
RECURSIVE TextFrom(_, _, _, _)
TextFrom(toks, p, e, d) ==
  IF p >= e THEN <<>>
  ELSE (IF toks[p].k = "CharData" /\ TokDepth(toks, p) = d THEN toks[p].Data ELSE <<>>)
         \o TextFrom(toks, p + 1, e, d)

DirectText(toks, i) == TextFrom(toks, i + 1, MatchingEnd(toks, i), TokDepth(toks, i) + 1)

\* the name of the tag at token c as the field loop compares it
ResolvedName(c) ==
  LET n == last.toks[c].Name
      uri == lookupNamespaceUri(nsUriMap, n.Space)
  IN IF uri # "" THEN XmlName(uri, n.Local) ELSE n

\* the fields of type t that a child element named as token c is matched to
ElemFieldsFor(t, c) ==
  {fi \in {typeMap[t].fields[j] : j \in 1..Len(typeMap[t].fields)} :
     fAttr \notin fi.flags /\ fi.name = ResolvedName(c)}

\* the token a decoder event is about, 0 for an event about an attribute
EvTok(e) ==
  IF e.e = "elem" THEN e.j ELSE IF e.e \in {"unknown", "skip"} THEN e.i ELSE 0

Decoded == last.op = "Decode"

LeafFailed == \E n \in 1..Len(last.ev) : last.ev[n].e = "copyValueErr"

\* event n is an element with no registered type that the field loop routed
\* to an interface field
RoutedUnknown(n) ==
  /\ n > 1
  /\ last.ev[n].e = "unknown"
  /\ last.ev[n - 1].e = "elem"
  /\ last.ev[n - 1].j = last.ev[n].i

\* C2: when the field loop routes a child element to an interface field and
\* no type is registered under its name, the decode returns no error, the
\* field stays unset, the whole element up to its closing tag is consumed as
\* one unit, and every sibling after it is still matched to its field, the
\* decode ending after the root's closing tag.
C2_UnknownPolymorphicSkipped ==
  Decoded =>
    \A n \in 1..Len(last.ev) :
      RoutedUnknown(n) =>
        LET u == last.ev[n].i
            e == MatchingEnd(last.toks, u)
            slot == last.ev[n - 1]
        IN /\ last.err = Nil
           /\ \A m \in 1..Len(last.ev) : ~(EvTok(last.ev[m]) > u /\ EvTok(last.ev[m]) <= e)
           /\ \A c \in Children(last.toks, Parent(last.toks, u)) :
                c > u => \E m \in 1..Len(last.ev) :
                           last.ev[m].e \in {"elem", "skip"} /\ EvTok(last.ev[m]) = c
           /\ (last.v.t = "*Box" /\ Parent(last.toks, u) = 1)
                => /\ last.pos = MatchingEnd(last.toks, 1) + 1
                   /\ (Cardinality({m \in 1..Len(last.ev) :
                                      /\ last.ev[m].e = "elem"
                                      /\ last.ev[m].t = slot.t
                                      /\ last.ev[m].i = slot.i
                                      /\ Parent(last.toks, last.ev[m].j) = 1}) = 1
                         => last.res.p[1].f[slot.i] = last.v.p[1].f[slot.i])

\* the last child of the root that the field loop routed to field index i
LastRouted(i) ==
  LET cs == {c \in Children(last.toks, 1) :
               \E fi \in ElemFieldsFor(Elem(last.v.t), c) : fi.index = i}
  IN IF cs = {} THEN 0 ELSE CHOOSE c \in cs : \A k \in cs : k <= c

\* C3: decoding a structured value from an element that holds, among
\* recognized children, a child that matches no field returns no error
\* (every leaf parsing), skips exactly that child's subtree, nested content
\* included, and fills every recognized field before and after it.
C3_UnknownChildSkipped ==
  Decoded =>
    \A n \in 1..Len(last.ev) :
      last.ev[n].e = "skip" =>
        LET u == last.ev[n].i
            t == last.ev[n].t
        IN /\ last.ev[n].j = MatchingEnd(last.toks, u) + 1
           /\ LeafFailed \/ last.err = Nil
           /\ LeafFailed \/ \A c \in Children(last.toks, Parent(last.toks, u)) :
                \A fi \in ElemFieldsFor(t, c) :
                  \E m \in 1..Len(last.ev) : last.ev[m] = Ev("elem", t, fi.index, c)
           /\ (last.v.t = "*Rec" /\ ~LeafFailed) =>
                /\ LastRouted(3) # 0
                     => last.res.p[1].f[3].i = ParseInt(DirectText(last.toks, LastRouted(3))).v
                /\ LastRouted(4) # 0
                     => last.res.p[1].f[4].s = DirectText(last.toks, LastRouted(4))

\* a Rec was decoded from <Rec><N>12</N><Unk>..nested..</Unk><Foo>b</Foo></Rec>
C3_Witness ==
  /\ Decoded
  /\ last.v.t = "*Rec"
  /\ last.err = Nil
  /\ \E n \in 1..Len(last.ev) :
       /\ last.ev[n].e = "skip"
       /\ last.ev[n].j > last.ev[n].i + 3
       /\ \E b, a \in Children(last.toks, 1) :
            /\ b < last.ev[n].i
            /\ a > last.ev[n].i
            /\ ElemFieldsFor("Rec", b) # {}
            /\ ElemFieldsFor("Rec", a) # {}
  /\ last.res.p[1].f[3].i = 12
  /\ last.res.p[1].f[4].s = <<"b">>

\* C4: a leaf whose text fails to parse makes the Decode call return an
\* error, as an attribute and as a child element's text.
C4_LeafParseFailureReturned ==
  (Decoded /\ LeafFailed) => last.err # Nil

\* the n-th opening tag at top level
NthTop(toks, n) ==
  CHOOSE i \in TopStarts(toks) : Cardinality({k \in TopStarts(toks) : k <= i}) = n

\* C8: decoding a stream of N top-level elements (every leaf parsing) into a
\* pointer to a sequence returns success at the end of the stream and leaves
\* the items it held followed by exactly N new ones in document order,
\* whatever capacity it had.
C8_SequenceGrowth ==
  (Decoded /\ last.v.k = "Ptr" /\ last.v.p[1].k = "Slice" /\ ~LeafFailed) =>
    LET old == last.v.p[1].a
        new == last.res.p[1].a
        N == Cardinality(TopStarts(last.toks))
    IN /\ last.err = Nil
       /\ Len(new) = Len(old) + N
       /\ Len(new) = Len(old) + N =>
            /\ \A k \in 1..Len(old) : new[k] = old[k]
            /\ \A k \in 1..N :
                 LET st == last.toks[NthTop(last.toks, k)]
                     it == new[Len(old) + k]
                 IN (it.k = "Struct" /\ it.t = "Rec") =>
                      \A a \in 1..Len(st.Attr) :
                        st.Attr[a].Name = Nm("N") => it.f[1].i = ParseInt(st.Attr[a].Value).v

\* the flags of the field of type t at index i
FlagsOf(t, i) ==
  UNION {typeMap[t].fields[j].flags :
           j \in {k \in 1..Len(typeMap[t].fields) : typeMap[t].fields[k].index = i}}

\* C9: the field loop never writes a field flagged attr from a child element
\* and never writes a field not flagged attr from an attribute, even when
\* the names are equal.
C9_AttrElementDisjoint ==
  Decoded =>
    /\ \A n \in 1..Len(last.ev) :
         /\ last.ev[n].e = "attr" => fAttr \in FlagsOf(last.ev[n].t, last.ev[n].i)
         /\ last.ev[n].e = "elem" => fAttr \notin FlagsOf(last.ev[n].t, last.ev[n].i)
    /\ (last.v.t = "*Rec" /\ last.v.k = "Ptr") =>
         /\ (\A a \in 1..Len(last.toks[1].Attr) : last.toks[1].Attr[a].Name # Nm("N"))
              => last.res.p[1].f[1] = last.v.p[1].f[1]
         /\ (\A c \in Children(last.toks, 1) : ResolvedName(c) # Nm("N"))
              => last.res.p[1].f[3] = last.v.p[1].f[3]

\* a Rec was decoded from <Rec N="7"><N>12</N>..</Rec>: attribute and child
\* bear the same name and each went to its own field
C9_Witness ==
  /\ Decoded
  /\ last.v.t = "*Rec"
  /\ last.err = Nil
  /\ \E a \in 1..Len(last.toks[1].Attr) : last.toks[1].Attr[a].Name = Nm("N")
  /\ \E c \in Children(last.toks, 1) : last.toks[c].Name = Nm("N")
  /\ last.res.p[1].f[1].i = 7
  /\ last.res.p[1].f[3].i = 12

(***************************************************************************)
(* What Encode wrote, read back as tokens.                                 *)
(***************************************************************************)
Encoded == last.op = "Encode"

RoundTripped == last.op = "DecodeEncoded"

SinkToks == Tokenize(last.sink).toks

\* the value Encode was given, its pointers followed
Given == IF last.v.k = "Ptr" THEN last.v.p[1] ELSE last.v

\* the name a field's tag is written under: the prefix of its namespace
WrittenName(n) ==
  XmlName(IF n.Space \in DOMAIN nsPrefixMap THEN nsPrefixMap[n.Space] ELSE "", n.Local)

\* C5: for every field flagged omitempty of the struct encoded, attribute
\* field or child-element field, the output holds no attribute/element for
\* it when the field holds the zero value of its type and holds one when it
\* does not.
C5_OmitEmpty ==
  (Encoded /\ last.v.k = "Struct" /\ last.err = Nil) =>
    \A j \in 1..Len(typeMap[last.v.t].fields) :
      LET fi == typeMap[last.v.t].fields[j]
          fval == last.v.f[fi.index]
          written ==
            IF fAttr \in fi.flags
            THEN \E a \in 1..Len(SinkToks[1].Attr) :
                   SinkToks[1].Attr[a].Name = WrittenName(fi.name)
            ELSE \E c \in Children(SinkToks, 1) : SinkToks[c].Name = WrittenName(fi.name)
      IN fOmitEmpty \in fi.flags => (written <=> fval # ZeroValue(fval.t))

\* Encode reaches a value of a kind that has no leaf encoding
RECURSIVE ReachesChan(_)
ReachesChan(v) ==
  CASE v.k = "Chan" -> TRUE
    [] v.k = "Ptr" -> v.p # <<>> /\ ReachesChan(v.p[1])
    [] v.k = "Interface" -> v.d # <<>> /\ ReachesChan(v.d[1])
    [] v.k = "Slice" -> \E i \in 1..Len(v.a) : ReachesChan(v.a[i])
    [] v.k = "Struct" /\ v.t # "Time" -> \E i \in 1..Len(v.f) : ReachesChan(v.f[i])
    [] OTHER -> FALSE

\* equality of two values field by field, whatever the capacity of a slice
RECURSIVE SameValue(_, _)
SameValue(a, b) ==
  /\ a.k = b.k
  /\ a.t = b.t
  /\ CASE a.k = "Slice" ->
            Len(a.a) = Len(b.a) /\ \A i \in 1..Len(a.a) : SameValue(a.a[i], b.a[i])
       [] a.k = "Struct" /\ a.t # "Time" -> \A i \in 1..Len(a.f) : SameValue(a.f[i], b.f[i])
       [] a.k = "Ptr" -> Len(a.p) = Len(b.p) /\ (a.p # <<>> => SameValue(a.p[1], b.p[1]))
       [] a.k = "Interface" ->
            Len(a.d) = Len(b.d) /\ (a.d # <<>> => SameValue(a.d[1], b.d[1]))
       [] OTHER -> a = b

\* C6: decoding what Encode wrote for a structured value (no nil pointer,
\* every leaf of a kind that has an encoding) into a new value of the same
\* type returns no error and yields a value equal to the original field by
\* field: attributes, elements, a nested struct, a repeated element and an
\* interface field holding a registered type.
C6_RoundTrip ==
  (RoundTripped /\ (last.v.k = "Ptr" => last.v.p # <<>>) /\ ~ReachesChan(last.v)) =>
    /\ last.err = Nil
    /\ SameValue(last.res.p[1], Given)

\* the namespace table holds urn:example <-> ex and the descriptor of Rec
\* was derived under it
ExampleRegistered ==
  /\ "urn:example" \in DOMAIN nsPrefixMap
  /\ nsPrefixMap["urn:example"] = "ex"
  /\ "ex" \in DOMAIN nsUriMap
  /\ nsUriMap["ex"] = "urn:example"
  /\ "Rec" \in DOMAIN typeMap
  /\ \E j \in 1..Len(typeMap["Rec"].fields) :
       /\ typeMap["Rec"].fields[j].index = 4
       /\ typeMap["Rec"].fields[j].name = XmlName("urn:example", "Foo")

\* C7: with ("urn:example", "ex") registered, Encode writes the field tagged
\* ex:Foo as the element <ex:Foo>, and decoding that document, which
\* declares no namespace, matches the element to the same field through the
\* registered prefix and restores the field.
C7_NamespaceRoundTrip ==
  (ExampleRegistered /\ last.op \in {"Encode", "DecodeEncoded"} /\ last.err = Nil
     /\ last.v.k \in {"Struct", "Ptr"} /\ (last.v.k = "Ptr" => last.v.p # <<>>)
     /\ ValueType(last.v) = "Rec") =>
    /\ \E i \in 1..Len(last.sink) : last.sink[i] = TagFrag("ex", "Foo")
    /\ \E c \in Children(SinkToks, 1) : SinkToks[c].Name = XmlName("ex", "Foo")
    /\ \A c \in 1..Len(SinkToks) :
         SinkToks[c].k = "StartElement" =>
           \A a \in 1..Len(SinkToks[c].Attr) :
             /\ SinkToks[c].Attr[a].Name.Space # "xmlns"
             /\ SinkToks[c].Attr[a].Name.Local # "xmlns"
    /\ RoundTripped =>
         /\ \E c \in Children(SinkToks, 1) :
              /\ SinkToks[c].Name = XmlName("ex", "Foo")
              /\ \E m \in 1..Len(last.ev) : last.ev[m] = Ev("elem", "Rec", 4, c)
         /\ last.res.p[1].f[4] = Given.f[4]

\* a Rec whose Foo is "a" went out as <ex:Foo>a</ex:Foo> and came back
C7_Witness ==
  /\ ExampleRegistered
  /\ RoundTripped
  /\ last.err = Nil
  /\ ValueType(last.v) = "Rec"
  /\ Given.f[4] = StrV(<<"a">>)
  /\ last.res.p[1].f[4] = StrV(<<"a">>)
  /\ \E i \in 1..Len(last.sink) : last.sink[i] = TagFrag("ex", "Foo")

\* C10: when Encode reaches a value of a kind that has no leaf encoding, in
\* attribute position or in element position, it returns the
\* unsupported-type error that names the type.
C10_UnsupportedTypeReturned ==
  (Encoded /\ ReachesChan(last.v)) => last.err = UnsupportedTypeError("chan int")


(***************************************************************************)
(* Concurrent registration and the lock discipline.                        *)
(***************************************************************************)
Running(g) == gor[g].at # "idle"

\* some goroutine inside a call can take its next step
NoDeadlock == (\E g \in Goroutines : Running(g)) => (\E g \in Goroutines : ENABLED Step(g))

\* every descriptor in the registry stays as it was written
DescriptorsKept == \A t \in DOMAIN typeMap : t \in DOMAIN typeMap' /\ typeMap'[t] = typeMap[t]

\* C11: whatever the interleaving of callers that register or lazily derive
\* a descriptor for the same type, no caller deadlocks and a descriptor that
\* was written is never replaced: the first write stays and the later one
\* is discarded.
C11_RacingRegistrations ==
  /\ []NoDeadlock
  /\ [][\A g \in Goroutines :
          (gor[g].op = "getTypeInfo" /\ gor[g].at = "type.write" /\ gor'[g].at # "type.write")
            => DescriptorsKept]_vars

\* C12: in every reachable state, whatever RegisterNamespace calls were
\* made, the namespace table maps URI xmlns to prefix xmlns and prefix
\* xmlns to URI xmlns.
C12_XmlnsPairKept ==
  /\ lookupPrefix(nsPrefixMap, "xmlns") = "xmlns"
  /\ lookupNamespaceUri(nsUriMap, "xmlns") = "xmlns"

(***************************************************************************)
(* Find, and errors under a top-level sequence.                            *)
(***************************************************************************)
Found == last.op = "Find"

\* the tokens of the document in hand that are start tags with a candidate name
Candidates == {i \in 1..Len(last.toks) : IsNamedStart(last.toks[i], last.names)}

FirstCandidate == CHOOSE i \in Candidates : \A j \in Candidates : i <= j

\* C13: Find(names) reads the tokens in order, discards every token that is
\* not a start tag with one of the candidate names, and returns the first
\* such start tag with the cursor just after it; when the stream ends before
\* one appears it returns the end-of-stream error.
C13_FindFirstCandidate ==
  Found =>
    IF Candidates = {}
    THEN last.err = <<"EOF">> /\ last.start = <<>> /\ last.pos = Len(last.toks) + 1
    ELSE /\ last.err = Nil
         /\ last.start = <<last.toks[FirstCandidate]>>
         /\ last.pos = FirstCandidate + 1

\* Find returned a start tag after discarding a start tag of another name,
\* character data and an end tag
C13_Witness ==
  /\ Found
  /\ last.err = Nil
  /\ last.start # <<>>
  /\ \E i, j, k \in 1..(last.pos - 2) :
       /\ last.toks[i].k = "StartElement"
       /\ last.toks[j].k = "CharData"
       /\ last.toks[k].k = "EndElement"

\* a Decode or DecodeElement call with a pointer to a []Rec as destination
SeqDecoded == last.op \in {"Decode", "DecodeElement"} /\ last.v.t = "*[]Rec"

\* the start tag at token i has an N attribute that is not an integer: the
\* element fails to decode as a Rec
BadStart(i) ==
  \E a \in 1..Len(last.toks[i].Attr) :
    last.toks[i].Attr[a].Name = Nm("N") /\ ~ParseInt(last.toks[i].Attr[a].Value).ok

\* the call returned an error other than io.EOF with the cursor at pos and n
\* items added to the sequence
AbortedAt(pos, n) ==
  /\ last.err \notin {Nil, <<"EOF">>}
  /\ last.pos = pos
  /\ Len(last.res.p[1].a) = Len(last.v.p[1].a) + n

\* C14: when the destination is a top-level sequence, an error other than
\* end-of-stream raised while decoding an element, the first one (decoded
\* with the caller's start tag) included, ends the call at once and is
\* returned, the sequence is not grown for that element, and only
\* end-of-stream becomes success.
C14_SequenceErrorAborts ==
  SeqDecoded =>
    /\ (last.op = "DecodeElement" /\ BadStart(last.from - 1)) => AbortedAt(last.from, 0)
    /\ last.op = "Decode" =>
         LET bad == {i \in TopStarts(last.toks) : BadStart(i)}
             b == CHOOSE i \in bad : \A j \in bad : i <= j
         IN IF bad = {} THEN last.err = Nil
            ELSE AbortedAt(b + 1, Cardinality({k \in TopStarts(last.toks) : k < b}))

(***************************************************************************)
(* Nil values and interface slots in the encoder.                          *)
(***************************************************************************)
\* a pointer or an interface that holds nothing
NilSlot(v) ==
  \/ v.k = "Ptr" /\ v.p = <<>>
  \/ v.k = "Interface" /\ v.d = <<>>

\* the fields of a struct value that hold a nil pointer or a nil interface
NilFields(v) == {i \in 1..Len(v.f) : NilSlot(v.f[i])}

\* a struct with a nil field was encoded: a Box whose Any is nil or a Bag
\* whose Ref is nil
NilFieldEncoded == Encoded /\ last.v.k = "Struct" /\ last.v.t \in {"Box", "Bag"} /\ NilFields(last.v) # {}

\* the local names of the children written for the struct
ChildLocals == {SinkToks[c].Name.Local : c \in Children(SinkToks, 1)}

\* C15: Encode writes nothing and returns no error for a nil pointer or a
\* nil interface given at top level, and for a nil pointer field or a nil
\* interface field of a struct (an interface field without omitempty
\* included): no element is written for the field, the string field beside
\* it is.
C15_NilEmitsNothing ==
  /\ (Encoded /\ (last.v.k = "Invalid" \/ NilSlot(last.v))) =>
       last.err = Nil /\ last.sink = <<>>
  /\ NilFieldEncoded =>
       /\ last.err = Nil
       /\ Tokenize(last.sink).tail = "EOF"
       /\ (IF last.v.t = "Box" THEN "Any" ELSE "Ref") \notin ChildLocals
       /\ (IF last.v.t = "Box" THEN "Name" ELSE "Tail") \in ChildLocals

\* the interface values an interface-slot field of the struct holds: Any
\* of a Box, the items of Things of a Bag
SlotItems(v) ==
  CASE v.k = "Struct" /\ v.t = "Box" -> <<v.f[4]>>
    [] v.k = "Struct" /\ v.t = "Bag" -> v.f[2].a
    [] OTHER -> <<>>

\* the runtime types of the items that are not nil
RuntimeTypes(v) ==
  {Deref(SlotItems(v)[i].d[1].t) : i \in {j \in 1..Len(SlotItems(v)) : ~NilSlot(SlotItems(v)[j])}}

\* a struct was encoded whose interface slot holds at least one item that
\* is not nil, and no value of an unsupported kind
SlotEncoded == Encoded /\ RuntimeTypes(last.v) # {} /\ ~ReachesChan(last.v)

\* C16: for an interface-slot field, a single interface field (Box.Any)
\* as well as a slice of interfaces (Bag.Things), Encode returns no error
\* and writes each item that is not nil as a child named by the registered
\* name of the item's runtime type, never by the field's declared name.
C16_InterfaceSlotNamedByRuntimeType ==
  SlotEncoded =>
    /\ last.err = Nil
    /\ Tokenize(last.sink).tail = "EOF"
    /\ \A t \in RuntimeTypes(last.v) :
         /\ t \in DOMAIN typeMap
         /\ \E c \in Children(SinkToks, 1) : SinkToks[c].Name = WrittenName(typeMap[t].name)
    /\ ChildLocals \cap {"Any", "Thing"} = {}

(***************************************************************************)
(* time.Time in element position.                                          *)
(***************************************************************************)
\* the call in hand was given a Stamp, or a pointer to one, whose When is
\* not the zero time
StampGiven ==
  /\ last.op \in {"Encode", "DecodeEncoded"}
  /\ last.v.k # "Invalid" /\ ~NilSlot(last.v)
  /\ Given.t = "Stamp"
  /\ Given.f[2].tm # 0

\* C17: a time.Time field in element position is a leaf: Encode writes
\* its RFC 3339 text as the content of the field's element, and decoding
\* what was written parses that text back, so a When that is not the zero
\* time survives the round trip.
C17_TimeElementRoundTrip ==
  StampGiven =>
    /\ last.err = Nil
    /\ \E c \in Children(SinkToks, 1) :
         /\ SinkToks[c].Name.Local = "When"
         /\ DirectText(SinkToks, c) = FormatTime(Given.f[2].tm)
    /\ RoundTripped => last.res.p[1].f[2] = Given.f[2]

(***************************************************************************)
(* The namespace of a field descriptor.                                    *)
(***************************************************************************)
\* goroutine g takes this step
Acts(g) == gor'[g] # gor[g]

\* the field descriptors of every cached type are the same after the step
FieldsKept ==
  \A t \in DOMAIN typeMap : t \in DOMAIN typeMap' /\ typeMap'[t].fields = typeMap[t].fields

\* C18: the namespace of a field is fixed when the descriptor of its
\* type is derived.  Once a descriptor is cached, no step of
\* RegisterNamespace, of a lookup or of a lazy first use (getTypeInfo, as
\* Encode and Decode call it) changes its field descriptors: a field
\* whose prefix was unknown at derivation keeps the empty namespace.
C18_FieldNamespaceFixed ==
  [][\A g \in Goroutines :
       (Acts(g) /\ gor[g].op # "RegisterTypeMore") => FieldsKept]_vars

(***************************************************************************)
(* The lock discipline.                                                    *)
(***************************************************************************)
\* where a goroutine that holds typeLock, or nsLock, can be
TypeHeldAt == {"type.read", "type.RUnlock", "type.write", "type.Unlock"}
NsHeldAt == {"ns.read", "ns.RUnlock", "ns.write", "ns.write2", "ns.Unlock"}

\* a lock is held only between its acquisition and its release, by a
\* goroutine that neither holds nor waits for the other lock; a goroutine
\* outside a call, where it reads tokens and writes output, holds none
HeldApart ==
  \A g \in Goroutines :
    /\ Holds(typeLock, g) =>
         gor[g].at \in TypeHeldAt /\ ~Holds(nsLock, g) /\ g \notin nsLock.q
    /\ Holds(nsLock, g) =>
         gor[g].at \in NsHeldAt /\ ~Holds(typeLock, g) /\ g \notin typeLock.q
    /\ gor[g].at = "idle" =>
         /\ ~Holds(typeLock, g) /\ ~Holds(nsLock, g)
         /\ g \notin typeLock.q /\ g \notin nsLock.q

\* some goroutine inside a call can take its next step
SomeoneRuns ==
  (\E g \in Goroutines : gor[g].at # "idle") => \E g \in Goroutines : ENABLED Step(g)

\* goroutine g takes a step that reads or writes a map
MapAccess(g) ==
  /\ gor[g].at \in {"type.read", "type.write", "ns.read", "ns.write", "ns.write2"}
  /\ gor'[g] # gor[g]

\* after the step g is about to release the lock it holds
Releasing(g) == gor'[g].at \in {"type.RUnlock", "type.Unlock", "ns.RUnlock", "ns.Unlock"}

\* C19 as stated: each lock is held for a single map read or write, neither
\* is held while the other is acquired or while a token is read or output
\* written, and no interleaving deadlocks.
C19_SingleAccessPerHold ==
  /\ []HeldApart
  /\ []SomeoneRuns
  /\ [][\A g \in Goroutines : MapAccess(g) => Releasing(g)]_vars

\* C19: each lock is held for one operation on its table (a lookup,
\* getTypeByName's scan, a store into the registry, or RegisterNamespace's
\* two stores, one into each namespace map), neither is held while the
\* other is acquired or while a token is read or output written, and no
\* interleaving deadlocks.
C19_LockDiscipline ==
  /\ []HeldApart
  /\ []SomeoneRuns
  /\ [][\A g \in Goroutines :
          MapAccess(g) => (Releasing(g) \/ (gor[g].at = "ns.write" /\ gor'[g].at = "ns.write2"))]_vars

\* RegisterNamespace is between its two stores while the other goroutine
\* holds the registry lock, after a token was read
C19_Witness ==
  \E g, h \in Goroutines :
    /\ nsLock.w = g /\ gor[g].at = "ns.write2"
    /\ Holds(typeLock, h)
    /\ gor[h].n = 2

(***************************************************************************)
(* What reaches the sink.                                                  *)
(***************************************************************************)
\* C20: whenever Encode returns no error, what it wrote to the sink is
\* balanced markup: every tag that was opened is closed with ">", every
\* attribute value is closed with its quote, and every opening tag is
\* followed by its closing tag, properly nested; the tokenizer reads the
\* sink to its end without a syntax error.
C20_BalancedMarkup ==
  (Encoded /\ last.err = Nil) => Tokenize(last.sink).tail = "EOF"

====
